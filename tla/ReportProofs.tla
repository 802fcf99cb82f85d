---------------------------- MODULE ReportProofs ----------------------------
(***************************************************************************)
(* What putting sets in order, thinning out sequences and gathering them   *)
(* into one does, for every set and every sequence, and with it what       *)
(* withholding and sorting do to the results of an analysis, for every     *)
(* list of results.                                                        *)
(***************************************************************************)
EXTENDS Report, SequencesExt, FiniteSetTheorems, FunctionTheorems, SequenceTheorems, TLAPS

-----------------------------------------------------------------------------
(***************************************************************************)
(* Sets put in order.                                                      *)
(***************************************************************************)

\* The members of S that come before x.
Before(S, key, x) == {y \in S : key[y] < key[x]}

\* Fewer members come before the one that comes first.
LEMMA FewerBefore ==
  ASSUME NEW S, IsFiniteSet(S), NEW key \in [S -> Int], NEW x \in S, NEW y \in S,
         key[x] < key[y]
  PROVE  /\ Cardinality(Before(S, key, x)) < Cardinality(Before(S, key, y))
         /\ Cardinality(Before(S, key, x)) \in Nat /\ Cardinality(Before(S, key, y)) \in Nat
<1>. DEFINE X == Before(S, key, x)
            Y == Before(S, key, y)
<1>1. X \subseteq Y /\ x \in Y /\ x \notin X /\ X \subseteq S /\ Y \subseteq S  BY DEF Before
<1>. HIDE DEF X, Y
<1>2. IsFiniteSet(Y) /\ IsFiniteSet(X)  BY <1>1, FS_Subset
<1>3. Cardinality(X) \in Nat /\ Cardinality(Y) \in Nat  BY <1>2, FS_CardinalityType
<1>4. Cardinality(X) < Cardinality(Y)
  <2>1. Cardinality(X) <= Cardinality(Y) /\ (Cardinality(X) = Cardinality(Y) => X = Y)
    BY <1>1, <1>2, FS_Subset
  <2>. QED  BY <1>1, <1>3, <2>1
<1>. QED  BY <1>3, <1>4 DEF X, Y

\* The place of a member, counted from one.
PlaceOf(S, key) == [x \in S |-> 1 + Cardinality(Before(S, key, x))]

\* Every place is taken, by one member.
LEMMA PlacesTaken ==
  ASSUME NEW S, IsFiniteSet(S), NEW key \in [S -> Int],
         \A x, y \in S : key[x] = key[y] => x = y
  PROVE  /\ Cardinality(S) \in Nat
         /\ PlaceOf(S, key) \in [S -> 1 .. Cardinality(S)]
         /\ \A x, y \in S : PlaceOf(S, key)[x] < PlaceOf(S, key)[y] <=> key[x] < key[y]
         /\ \A k \in 1 .. Cardinality(S) : \E x \in S : PlaceOf(S, key)[x] = k
<1>. DEFINE n == Cardinality(S)
            place == PlaceOf(S, key)
<1>1. n \in Nat  BY FS_CardinalityType
<1>2. ASSUME NEW x \in S PROVE place[x] \in 1 .. n
  <2>. DEFINE X == Before(S, key, x)
  <2>1. X \subseteq S \ {x}  BY DEF Before
  <2>2. IsFiniteSet(S \ {x}) /\ Cardinality(S \ {x}) = n - 1  BY FS_RemoveElement
  <2>3. place[x] = 1 + Cardinality(X)  BY DEF PlaceOf
  <2>. HIDE DEF X, place
  <2>4. IsFiniteSet(X) /\ Cardinality(X) <= n - 1  BY <2>1, <2>2, FS_Subset
  <2>5. Cardinality(X) \in Nat  BY <2>4, FS_CardinalityType
  <2>. HIDE DEF n
  <2>. QED  BY <1>1, <2>3, <2>4, <2>5
<1>3. place \in [S -> 1 .. n]  BY <1>2 DEF PlaceOf
<1>4. ASSUME NEW x \in S, NEW y \in S, key[x] < key[y] PROVE place[x] < place[y]
  BY <1>4, FewerBefore DEF PlaceOf
<1>5. ASSUME NEW x \in S, NEW y \in S PROVE place[x] < place[y] <=> key[x] < key[y]
  <2>1. place[x] \in Int /\ place[y] \in Int /\ key[x] \in Int /\ key[y] \in Int
    <3>. HIDE DEF place, n
    <3>. QED  BY <1>1, <1>3
  <2>2. key[x] < key[y] => place[x] < place[y]  BY <1>4
  <2>3. key[y] < key[x] => place[y] < place[x]  BY <1>4
  <2>. HIDE DEF place
  <2>. QED  BY <2>1, <2>2, <2>3
<1>6. place \in Injection(S, 1 .. n)
  <2>1. ASSUME NEW x \in S, NEW y \in S, place[x] = place[y] PROVE x = y
    <3>1. key[x] \in Int /\ key[y] \in Int  OBVIOUS
    <3>2. place[x] \in Int /\ place[y] \in Int
      <4>. HIDE DEF place, n
      <4>. QED  BY <1>1, <1>3
    <3>3. ~(key[x] < key[y]) /\ ~(key[y] < key[x])
      <4>1. (place[x] < place[y] <=> key[x] < key[y]) /\ (place[y] < place[x] <=> key[y] < key[x])
        BY <1>5
      <4>. HIDE DEF place
      <4>. QED  BY <2>1, <3>2, <4>1
    <3>. QED  BY <3>1, <3>3
  <2>. HIDE DEF place
  <2>. QED  BY <1>3, <2>1 DEF Injection, IsInjective
<1>7. Cardinality(1 .. n) = n /\ IsFiniteSet(1 .. n)
  <2>. HIDE DEF n
  <2>. QED  BY <1>1, FS_Interval
<1>8. place \in Surjection(S, 1 .. n)
  <2>1. Cardinality(S) = Cardinality(1 .. n)  BY <1>7
  <2>. HIDE DEF place, n
  <2>. QED  BY <1>6, <1>7, <2>1, FS_Injection
<1>9. \A k \in 1 .. n : \E x \in S : place[x] = k
  <2>. HIDE DEF place, n
  <2>. QED  BY <1>8 DEF Surjection
<1>. HIDE DEF place, n
<1>. QED  BY <1>1, <1>3, <1>5, <1>9 DEF place, n

\* Arranged lists every member once, by ascending key.
LEMMA ArrangedFacts ==
  ASSUME NEW S, IsFiniteSet(S), NEW key \in [S -> Int],
         \A x, y \in S : key[x] = key[y] => x = y
  PROVE  /\ Cardinality(S) \in Nat
         /\ Arranged(S, key) \in [1 .. Cardinality(S) -> S]
         /\ \A i, j \in 1 .. Cardinality(S) :
              i < j => key[Arranged(S, key)[i]] < key[Arranged(S, key)[j]]
         /\ ToSet(Arranged(S, key)) = S
<1>. DEFINE n == Cardinality(S)
            place == PlaceOf(S, key)
            a == Arranged(S, key)
<1>1. /\ n \in Nat /\ place \in [S -> 1 .. n]
      /\ \A x, y \in S : place[x] < place[y] <=> key[x] < key[y]
      /\ \A k \in 1 .. n : \E x \in S : place[x] = k
  BY PlacesTaken
<1>2. a = [k \in 1 .. n |-> CHOOSE x \in S : place[x] = k]
  BY DEF Arranged, PlaceOf, Before
<1>. HIDE DEF place, n, a
<1>3. \A k \in 1 .. n : a[k] \in S /\ place[a[k]] = k  BY <1>1, <1>2
<1>4. a \in [1 .. n -> S]  BY <1>2, <1>3
<1>5. \A i, j \in 1 .. n : i < j => key[a[i]] < key[a[j]]  BY <1>1, <1>3
<1>6. ASSUME NEW x \in S PROVE \E k \in 1 .. n : a[k] = x
  <2>. DEFINE k == place[x]
              y == a[k]
  <2>1. k \in 1 .. n /\ y \in S /\ place[y] = place[x]  BY <1>1, <1>3
  <2>2. ~(place[x] < place[y]) /\ ~(place[y] < place[x])  BY <1>1, <2>1
  <2>3. key[x] = key[y]  BY <1>1, <2>1, <2>2
  <2>. QED  BY <2>1, <2>3
<1>7. ToSet(a) = S  BY <1>4, <1>6 DEF ToSet
<1>. QED  BY <1>1, <1>4, <1>5, <1>7 DEF n, a

\* Ascending lists every number of a set once, the smaller ones first.
LEMMA AscendingFacts ==
  ASSUME NEW S \in SUBSET Int, IsFiniteSet(S)
  PROVE  /\ Cardinality(S) \in Nat
         /\ Ascending(S) \in [1 .. Cardinality(S) -> S]
         /\ \A i, j \in 1 .. Cardinality(S) : i < j => Ascending(S)[i] < Ascending(S)[j]
         /\ ToSet(Ascending(S)) = S
<1>. DEFINE key == [x \in S |-> x]
<1>1. key \in [S -> Int] /\ \A x, y \in S : key[x] = key[y] => x = y  OBVIOUS
<1>2. Ascending(S) = Arranged(S, key)  BY DEF Ascending
<1>3. \A x \in S : key[x] = x  OBVIOUS
<1>. HIDE DEF key
<1>. DEFINE a == Arranged(S, key)
            n == Cardinality(S)
<1>4. n \in Nat  BY FS_CardinalityType
<1>5. a \in [1 .. n -> S]  BY <1>1, ArrangedFacts, Zenon
<1>6. \A i, j \in 1 .. n : i < j => key[a[i]] < key[a[j]]  BY <1>1, ArrangedFacts, Zenon
<1>7. ToSet(a) = S  BY <1>1, ArrangedFacts, Zenon
<1>. HIDE DEF a, n
<1>8. \A i, j \in 1 .. n : i < j => a[i] < a[j]  BY <1>3, <1>4, <1>5, <1>6
<1>. QED  BY <1>2, <1>4, <1>5, <1>7, <1>8 DEF a, n

\* A set of positions is finite and its members are numbers.
LEMMA PositionsFinite ==
  ASSUME NEW T, NEW s \in Seq(T), NEW I \in SUBSET DOMAIN s
  PROVE  IsFiniteSet(I) /\ I \in SUBSET Int
<1>1. Len(s) \in Nat /\ DOMAIN s = 1 .. Len(s)  BY LenProperties
<1>2. IsFiniteSet(1 .. Len(s))  BY <1>1, FS_Interval
<1>. QED  BY <1>1, <1>2, FS_Subset

\* The least of finitely many numbers.
LEMMA LeastOf ==
  ASSUME NEW S \in SUBSET Int, IsFiniteSet(S), S # {}
  PROVE  \E x \in S : \A y \in S : x <= y
<1>. DEFINE a == Ascending(S)
            n == Cardinality(S)
<1>1. /\ n \in Nat /\ a \in [1 .. n -> S] /\ ToSet(a) = S
      /\ \A i, j \in 1 .. n : i < j => a[i] < a[j]
  BY AscendingFacts
<1>. HIDE DEF a, n
<1>2. 1 \in 1 .. n
  <2>1. PICK x \in S : TRUE  OBVIOUS
  <2>2. PICK k \in DOMAIN a : a[k] = x  BY <1>1, <2>1 DEF ToSet
  <2>. QED  BY <1>1, <2>2
<1>3. \A k \in 1 .. n : a[k] \in S /\ a[k] \in Int  BY <1>1
<1>4. ASSUME NEW y \in S PROVE a[1] <= y
  <2>1. PICK k \in 1 .. n : a[k] = y  BY <1>1 DEF ToSet
  <2>2. a[1] \in Int /\ a[k] \in Int  BY <1>2, <1>3
  <2>3. k = 1 \/ 1 < k  BY <1>1
  <2>. QED  BY <1>1, <1>2, <2>1, <2>2, <2>3
<1>. QED  BY <1>2, <1>3, <1>4

\* Extract keeps what stands at the positions and drops the rest, in order.
LEMMA ExtractFacts ==
  ASSUME NEW T, NEW s \in Seq(T), NEW I \in SUBSET DOMAIN s
  PROVE  /\ Extract(s, I) \in Seq(T)
         /\ Len(Extract(s, I)) = Cardinality(I) /\ Cardinality(I) \in Nat
         /\ ToSet(Extract(s, I)) = {s[i] : i \in I}
         /\ \A k \in 1 .. Cardinality(I) : /\ Ascending(I)[k] \in I
                                           /\ Extract(s, I)[k] = s[Ascending(I)[k]]
         /\ \A i, j \in 1 .. Cardinality(I) : i < j => Ascending(I)[i] < Ascending(I)[j]
<1>. DEFINE a == Ascending(I)
            n == Cardinality(I)
            t == Extract(s, I)
<1>1. IsFiniteSet(I) /\ I \in SUBSET Int  BY PositionsFinite
<1>2. /\ n \in Nat /\ a \in [1 .. n -> I] /\ ToSet(a) = I
      /\ \A i, j \in 1 .. n : i < j => a[i] < a[j]
  BY <1>1, AscendingFacts
<1>3. t = [k \in 1 .. n |-> s[a[k]]]  BY DEF Extract
<1>4. \A i \in DOMAIN s : s[i] \in T  BY ElementOfSeq, LenProperties
<1>. HIDE DEF a, n, t
<1>5. \A k \in 1 .. n : a[k] \in I /\ t[k] = s[a[k]] /\ t[k] \in T  BY <1>2, <1>3, <1>4
<1>6. t \in Seq(T) /\ Len(t) = n
  <2>1. \A k \in 1 .. n : s[a[k]] \in T  BY <1>3, <1>5
  <2>2. [k \in 1 .. n |-> s[a[k]]] \in Seq(T)  BY <1>2, <2>1
  <2>3. t \in Seq(T) /\ DOMAIN t = 1 .. n  BY <1>3, <2>2
  <2>. QED  BY <1>2, <2>3, LenProperties
<1>7. ToSet(t) = {s[i] : i \in I}
  <2>1. ASSUME NEW x \in ToSet(t) PROVE x \in {s[i] : i \in I}
    BY <1>3, <1>5 DEF ToSet
  <2>2. ASSUME NEW i \in I PROVE s[i] \in ToSet(t)
    <3>1. PICK k \in 1 .. n : a[k] = i  BY <1>2 DEF ToSet
    <3>. QED  BY <1>3, <1>5, <3>1 DEF ToSet
  <2>. QED  BY <2>1, <2>2
<1>. QED  BY <1>2, <1>5, <1>6, <1>7 DEF a, n, t

\* A list of all the members of a set of numbers, the smaller ones first, is
\* Ascending's.
LEMMA NotBehind ==
  ASSUME NEW S \in SUBSET Int, NEW n \in Nat,
         NEW a \in [1 .. n -> S], NEW b \in [1 .. n -> S], ToSet(b) = S,
         \A i, j \in 1 .. n : i < j => a[i] < a[j],
         \A i, j \in 1 .. n : i < j => b[i] < b[j],
         NEW i \in 1 .. n, \A k \in 1 .. n : k < i => a[k] = b[k]
  PROVE  ~(a[i] < b[i])
<1>. SUFFICES ASSUME a[i] < b[i] PROVE FALSE  OBVIOUS
<1>1. PICK j \in 1 .. n : b[j] = a[i]
  <2>1. a[i] \in S  OBVIOUS
  <2>. QED  BY <2>1 DEF ToSet
<1>2. a[i] \in Int /\ b[i] \in Int /\ b[j] \in Int /\ a[j] \in Int  OBVIOUS
<1>3. CASE j < i
  <2>1. a[j] = b[j] /\ a[j] < a[i]  BY <1>3
  <2>. QED  BY <1>1, <1>2, <2>1
<1>4. CASE j = i  BY <1>1, <1>2, <1>4
<1>5. CASE i < j
  <2>1. b[i] < b[j]  BY <1>5
  <2>. QED  BY <1>1, <1>2, <2>1
<1>. QED  BY <1>3, <1>4, <1>5

LEMMA AscendingUnique ==
  ASSUME NEW S \in SUBSET Int, NEW n \in Nat, NEW a \in [1 .. n -> S], ToSet(a) = S,
         \A i, j \in 1 .. n : i < j => a[i] < a[j]
  PROVE  IsFiniteSet(S) /\ Cardinality(S) = n /\ Ascending(S) = a
<1>1. a \in Bijection(1 .. n, S)
  <2>1. \A i, j \in 1 .. n : i < j \/ j < i \/ i = j  OBVIOUS
  <2>2. ASSUME NEW i \in 1 .. n, NEW j \in 1 .. n, a[i] = a[j] PROVE i = j
    <3>1. a[i] \in Int /\ a[j] \in Int  OBVIOUS
    <3>. QED  BY <2>1, <2>2, <3>1
  <2>3. \A x \in S : \E i \in 1 .. n : a[i] = x  BY DEF ToSet
  <2>. QED  BY <2>2, <2>3 DEF Bijection, Injection, Surjection, IsInjective
<1>2. IsFiniteSet(S) /\ Cardinality(S) = n
  <2>1. ExistsBijection(1 .. n, S)  BY <1>1 DEF ExistsBijection
  <2>. QED  BY <2>1, FS_CountingElements, FS_NatBijection
<1>. DEFINE b == Ascending(S)
<1>3. /\ b \in [1 .. n -> S] /\ ToSet(b) = S
      /\ \A i, j \in 1 .. n : i < j => b[i] < b[j]
  BY <1>2, AscendingFacts
<1>. HIDE DEF b
<1>4. \A i \in 1 .. n : a[i] = b[i]
  <2>. DEFINE D == {i \in 1 .. n : a[i] # b[i]}
  <2>. SUFFICES ASSUME D # {} PROVE FALSE  OBVIOUS
  <2>1. D \in SUBSET Int /\ IsFiniteSet(D)  BY FS_Interval, FS_Subset
  <2>. HIDE DEF D
  <2>2. PICK i \in D : \A k \in D : i <= k  BY <2>1, LeastOf
  <2>3. i \in 1 .. n /\ a[i] # b[i] /\ \A k \in 1 .. n : k < i => a[k] = b[k]
    BY <2>2 DEF D
  <2>4. ~(a[i] < b[i])
    <3>1. \A k \in 1 .. n : k < i => a[k] = b[k]  BY <2>3
    <3>2. \A k, l \in 1 .. n : k < l => a[k] < a[l]  OBVIOUS
    <3>3. /\ S \in SUBSET Int /\ n \in Nat /\ a \in [1 .. n -> S] /\ b \in [1 .. n -> S]
          /\ ToSet(b) = S /\ i \in 1 .. n /\ \A k, l \in 1 .. n : k < l => b[k] < b[l]
      BY <1>3, <2>3
    <3>. QED  BY <3>1, <3>2, <3>3, NotBehind, Zenon
  <2>5. ~(b[i] < a[i])
    <3>1. \A k \in 1 .. n : k < i => b[k] = a[k]  BY <2>3
    <3>. QED  BY <1>3, <2>3, <3>1, NotBehind
  <2>6. a[i] \in Int /\ b[i] \in Int  BY <1>3, <2>3
  <2>. QED  BY <2>3, <2>4, <2>5, <2>6
<1>5. a = b  BY <1>3, <1>4
<1>. QED  BY <1>2, <1>5 DEF b

\* A position given on its own extracts what stands there, none extract nothing.
LEMMA ExtractOne ==
  ASSUME NEW s, NEW i \in Int
  PROVE  Extract(s, {i}) = <<s[i]>> /\ Extract(s, {}) = <<>>
<1>1. Cardinality({i}) = 1 /\ Ascending({i}) = <<i>>
  <2>1. <<i>> \in [1 .. 1 -> {i}] /\ ToSet(<<i>>) = {i}  BY DEF ToSet
  <2>2. \A k, l \in 1 .. 1 : k < l => <<i>>[k] < <<i>>[l]  OBVIOUS
  <2>. QED  BY <2>1, <2>2, AscendingUnique
<1>2. Extract(s, {i}) = <<s[i]>>  BY <1>1 DEF Extract
<1>3. Extract(s, {}) = <<>>
  <2>1. Cardinality({}) = 0 /\ 1 .. 0 = {}  BY FS_EmptySet
  <2>2. Extract(s, {}) = [k \in {} |-> s[Ascending({})[k]]]  BY <2>1, Zenon DEF Extract
  <2>. HIDE DEF Extract
  <2>. QED  BY <2>2
<1>. QED  BY <1>2, <1>3

\* Thinned out twice is thinned out once.
LEMMA ExtractTwice ==
  ASSUME NEW T, NEW s \in Seq(T), NEW I \in SUBSET DOMAIN s,
         NEW J \in SUBSET DOMAIN Extract(s, I)
  PROVE  /\ Extract(Extract(s, I), J) = Extract(s, {Ascending(I)[j] : j \in J})
         /\ {Ascending(I)[j] : j \in J} \in SUBSET I
<1>. DEFINE t == Extract(s, I)
            a == Ascending(I)
            b == Ascending(J)
            m == Cardinality(I)
            n == Cardinality(J)
            K == {a[j] : j \in J}
            c == [k \in 1 .. n |-> a[b[k]]]
<1>1. /\ t \in Seq(T) /\ Len(t) = m /\ m \in Nat
      /\ \A k \in 1 .. m : a[k] \in I /\ t[k] = s[a[k]]
      /\ \A i, j \in 1 .. m : i < j => a[i] < a[j]
  BY ExtractFacts
<1>2. DOMAIN t = 1 .. m /\ J \subseteq 1 .. m  BY <1>1, LenProperties
<1>3. IsFiniteSet(J) /\ J \in SUBSET Int  BY <1>1, PositionsFinite
<1>4. /\ n \in Nat /\ b \in [1 .. n -> J] /\ ToSet(b) = J
      /\ \A i, j \in 1 .. n : i < j => b[i] < b[j]
  BY <1>3, AscendingFacts
<1>5. I \in SUBSET Int  BY PositionsFinite
<1>6. Extract(t, J) = [k \in 1 .. n |-> t[b[k]]]  BY DEF Extract
<1>. HIDE DEF t, a, b, m, n
<1>7. \A k \in 1 .. n : b[k] \in J /\ b[k] \in 1 .. m  BY <1>2, <1>4
<1>8. K \in SUBSET I  BY <1>1, <1>2
<1>9. c \in [1 .. n -> K]  BY <1>7
<1>10. ToSet(c) = K
  <2>1. ASSUME NEW x \in K PROVE \E k \in 1 .. n : c[k] = x
    <3>1. PICK j \in J : x = a[j]  OBVIOUS
    <3>2. PICK k \in 1 .. n : b[k] = j  BY <1>4 DEF ToSet
    <3>. QED  BY <3>1, <3>2
  <2>. HIDE DEF c, K
  <2>. QED  BY <1>9, <2>1 DEF ToSet
<1>11. \A i, j \in 1 .. n : i < j => c[i] < c[j]  BY <1>1, <1>4, <1>7
<1>12. Cardinality(K) = n /\ Ascending(K) = c
  <2>1. K \in SUBSET Int  BY <1>5, <1>8
  <2>. HIDE DEF c, K
  <2>. QED  BY <1>4, <1>9, <1>10, <1>11, <2>1, AscendingUnique
<1>13. Extract(s, K) = [k \in 1 .. n |-> s[c[k]]]
  <2>. HIDE DEF c, K
  <2>. QED  BY <1>12 DEF Extract
<1>14. \A k \in 1 .. n : t[b[k]] = s[c[k]]  BY <1>1, <1>7
<1>. QED  BY <1>6, <1>8, <1>13, <1>14 DEF t, a

\* Only what stands at the positions matters.
LEMMA ExtractSame ==
  ASSUME NEW s, NEW t, NEW I \in SUBSET Int, IsFiniteSet(I), \A i \in I : s[i] = t[i]
  PROVE  Extract(s, I) = Extract(t, I)
<1>1. Ascending(I) \in [1 .. Cardinality(I) -> I]  BY AscendingFacts
<1>. QED  BY <1>1 DEF Extract

\* One sequence after another.
LEMMA ConcatSet ==
  ASSUME NEW T, NEW s \in Seq(T), NEW t \in Seq(T)
  PROVE  s \o t \in Seq(T) /\ ToSet(s \o t) = ToSet(s) \cup ToSet(t)
<1>. DEFINE u == s \o t
<1>1. /\ u \in Seq(T) /\ Len(u) = Len(s) + Len(t)
      /\ \A i \in 1 .. Len(u) : u[i] = IF i <= Len(s) THEN s[i] ELSE t[i - Len(s)]
  BY ConcatProperties
<1>2. /\ Len(s) \in Nat /\ DOMAIN s = 1 .. Len(s) /\ Len(t) \in Nat /\ DOMAIN t = 1 .. Len(t)
      /\ DOMAIN u = 1 .. Len(u)
  BY <1>1, LenProperties
<1>. HIDE DEF u
<1>3. ToSet(u) \subseteq ToSet(s) \cup ToSet(t)
  <2>. SUFFICES ASSUME NEW i \in 1 .. Len(u) PROVE u[i] \in ToSet(s) \cup ToSet(t)
    BY <1>2 DEF ToSet
  <2>1. CASE i <= Len(s)
    <3>1. i \in DOMAIN s /\ u[i] = s[i]  BY <1>1, <1>2, <2>1
    <3>. QED  BY <3>1 DEF ToSet
  <2>2. CASE ~(i <= Len(s))
    <3>1. i - Len(s) \in DOMAIN t /\ u[i] = t[i - Len(s)]  BY <1>1, <1>2, <2>2
    <3>. QED  BY <3>1 DEF ToSet
  <2>. QED  BY <2>1, <2>2
<1>4. ToSet(s) \subseteq ToSet(u)
  <2>. SUFFICES ASSUME NEW i \in DOMAIN s PROVE s[i] \in ToSet(u)  BY DEF ToSet
  <2>1. i \in DOMAIN u /\ u[i] = s[i]  BY <1>1, <1>2
  <2>. QED  BY <2>1 DEF ToSet
<1>5. ToSet(t) \subseteq ToSet(u)
  <2>. SUFFICES ASSUME NEW i \in DOMAIN t PROVE t[i] \in ToSet(u)  BY DEF ToSet
  <2>1. i + Len(s) \in DOMAIN u /\ u[i + Len(s)] = t[i]  BY <1>1, <1>2
  <2>. QED  BY <2>1 DEF ToSet
<1>. QED  BY <1>1, <1>3, <1>4, <1>5 DEF u

\* A sequence of one member at most.
LEMMA OneOrNone ==
  ASSUME NEW T, NEW r \in T, NEW s, s = <<r>> \/ s = <<>>
  PROVE  s \in Seq(T) /\ ToSet(s) = IF s = <<>> THEN {} ELSE {r}
<1>1. CASE s = <<>>  BY <1>1 DEF ToSet
<1>2. CASE s = <<r>>
  <2>1. s \in Seq(T) /\ DOMAIN s = {1} /\ s[1] = r /\ s # <<>>  BY <1>2
  <2>. QED  BY <2>1 DEF ToSet
<1>. QED  BY <1>1, <1>2

-----------------------------------------------------------------------------
(***************************************************************************)
(* Sequences gathered into one.                                            *)
(***************************************************************************)

\* The key by which the places of sequences are listed row by row.
Rowwise(cells) == [c \in cells |-> Span(cells) * c[1] + c[2]]

\* The places of finitely many sequences are finitely many, and their keys put
\* them in the order of the rows and of the places in each.
LEMMA CellsKeyed ==
  ASSUME NEW n \in Nat, NEW lists, DOMAIN lists = 1 .. n,
         \A i \in 1 .. n : \E m \in Nat : DOMAIN lists[i] = 1 .. m
  PROVE  /\ IsFiniteSet(Cells(lists))
         /\ \A c \in Cells(lists) : c[1] \in 1 .. n /\ c[2] \in Nat /\ c = <<c[1], c[2]>>
         /\ Rowwise(Cells(lists)) \in [Cells(lists) -> Int]
         /\ \A c, d \in Cells(lists) :
              Rowwise(Cells(lists))[c] < Rowwise(Cells(lists))[d]
                <=> c[1] < d[1] \/ (c[1] = d[1] /\ c[2] < d[2])
<1>. DEFINE cells == Cells(lists)
            row == [i \in 1 .. n |-> {i} \X DOMAIN lists[i]]
            rows == {row[i] : i \in 1 .. n}
            size == Cardinality(cells)
            span == Span(cells)
            key == [c \in cells |-> span * c[1] + c[2]]
<1>1. \A i \in 1 .. n : IsFiniteSet(DOMAIN lists[i])  BY FS_Interval
<1>2. \A i \in 1 .. n : IsFiniteSet(row[i])  BY <1>1, FS_Singleton, FS_Product
<1>3. IsFiniteSet(cells)
  <2>1. row \in Surjection(1 .. n, rows)  BY DEF Surjection
  <2>2. IsFiniteSet(1 .. n)  BY FS_Interval
  <2>3. IsFiniteSet(rows)
    <3>. HIDE DEF row, rows
    <3>. QED  BY <2>1, <2>2, FS_Surjection
  <2>4. cells = UNION rows  BY DEF Cells
  <2>. HIDE DEF cells
  <2>. QED  BY <1>2, <2>3, <2>4, FS_UNION
<1>4. size \in Nat /\ span \in Nat /\ span = 1 + size
  <2>. HIDE DEF cells
  <2>. QED  BY <1>3, FS_CardinalityType DEF Span
<1>5. \A c \in cells : /\ c[1] \in 1 .. n /\ c[2] \in Nat /\ c = <<c[1], c[2]>>
                       /\ c[2] \in DOMAIN lists[c[1]]
  BY DEF Cells
<1>6. ASSUME NEW c \in cells PROVE c[2] < span
  <2>. DEFINE m == c[2]
              S == {c[1]} \X (1 .. m)
  <2>1. c[1] \in 1 .. n /\ m \in Nat  BY <1>5
  <2>2. PICK k \in Nat : DOMAIN lists[c[1]] = 1 .. k  BY <2>1
  <2>3. m \in 1 .. k  BY <1>5, <2>2
  <2>4. S \subseteq cells  BY <2>1, <2>2, <2>3 DEF Cells
  <2>5. Cardinality(S) = m
    <3>1. IsFiniteSet({c[1]}) /\ Cardinality({c[1]}) = 1  BY FS_Singleton
    <3>2. IsFiniteSet(1 .. m) /\ Cardinality(1 .. m) = m
      <4>. HIDE DEF m
      <4>. QED  BY <2>1, FS_Interval
    <3>3. Cardinality(S) = Cardinality({c[1]}) * Cardinality(1 .. m)
      <4>. HIDE DEF m
      <4>. QED  BY <3>1, <3>2, FS_Product
    <3>. HIDE DEF m, S
    <3>. QED  BY <2>1, <3>1, <3>2, <3>3
  <2>. HIDE DEF S, cells, m, span
  <2>6. Cardinality(S) <= size  BY <1>3, <2>4, FS_Subset
  <2>7. m < span  BY <1>4, <2>1, <2>5, <2>6
  <2>. QED  BY <2>7 DEF m
<1>7. \A c \in cells : key[c] = span * c[1] + c[2]  OBVIOUS
<1>8. key \in [cells -> Int]
  <2>. HIDE DEF cells, span
  <2>1. \A c \in cells : span * c[1] + c[2] \in Int  BY <1>4, <1>5
  <2>. QED  BY <2>1
<1>9. ASSUME NEW c \in cells, NEW d \in cells
      PROVE  key[c] < key[d] <=> c[1] < d[1] \/ (c[1] = d[1] /\ c[2] < d[2])
  <2>. DEFINE start == [i \in Nat |-> span * i]
  <2>1. key[c] = start[c[1]] + c[2] /\ key[d] = start[d[1]] + d[2]  BY <1>5, <1>7
  <2>2. c[2] < span /\ d[2] < span  BY <1>6
  <2>. HIDE DEF cells, span, key
  <2>3. ASSUME NEW i \in Nat, NEW k \in Nat, i < k
        PROVE  start[i] \in Nat /\ start[k] \in Nat /\ start[i] + span <= start[k]
    <3>. DEFINE m == k - i - 1
    <3>1. m \in Nat /\ k = i + 1 + m  BY <2>3
    <3>. HIDE DEF m
    <3>2. span * k = span * i + span + span * m  BY <1>4, <3>1
    <3>3. span * i \in Nat /\ span * k \in Nat /\ span * m \in Nat  BY <1>4, <3>1
    <3>4. start[i] = span * i /\ start[k] = span * k  OBVIOUS
    <3>. DEFINE p == span * i
                q == span * k
                r == span * m
    <3>5. p \in Nat /\ q \in Nat /\ r \in Nat /\ q = p + span + r  BY <3>2, <3>3
    <3>. HIDE DEF p, q, r
    <3>6. p + span <= q  BY <1>4, <3>5
    <3>. QED  BY <3>4, <3>5, <3>6 DEF p, q
  <2>4. \A i \in Nat : start[i] \in Nat  BY <1>4
  <2>. HIDE DEF start
  <2>5. c[1] \in Nat /\ d[1] \in Nat /\ c[2] \in Nat /\ d[2] \in Nat  BY <1>5
  <2>6. ASSUME c[1] < d[1] PROVE key[c] < key[d]
    <3>1. start[c[1]] + span <= start[d[1]] /\ start[c[1]] \in Nat /\ start[d[1]] \in Nat
      BY <2>3, <2>5, <2>6
    <3>. QED  BY <1>4, <2>1, <2>2, <2>5, <3>1
  <2>7. ASSUME d[1] < c[1] PROVE key[d] < key[c]
    <3>1. start[d[1]] + span <= start[c[1]] /\ start[c[1]] \in Nat /\ start[d[1]] \in Nat
      BY <2>3, <2>5, <2>7
    <3>. QED  BY <1>4, <2>1, <2>2, <2>5, <3>1
  <2>8. ASSUME c[1] = d[1] PROVE key[c] < key[d] <=> c[2] < d[2]
    BY <2>1, <2>4, <2>5, <2>8
  <2>9. key[c] \in Int /\ key[d] \in Int  BY <1>8
  <2>. QED  BY <2>5, <2>6, <2>7, <2>8, <2>9
<1>10. key = Rowwise(cells)  BY DEF Rowwise
<1>. HIDE DEF key
<1>11. /\ IsFiniteSet(cells)
       /\ \A c \in cells : c[1] \in 1 .. n /\ c[2] \in Nat /\ c = <<c[1], c[2]>>
  BY <1>3, <1>5
<1>. HIDE DEF cells
<1>12. /\ key \in [cells -> Int]
       /\ \A c, d \in cells : key[c] < key[d] <=> c[1] < d[1] \/ (c[1] = d[1] /\ c[2] < d[2])
  BY <1>8, <1>9
<1>. QED  BY <1>10, <1>11, <1>12 DEF cells

\* The places of finitely many sequences can be listed row by row.
LEMMA RowsListed ==
  ASSUME NEW n \in Nat, NEW lists, DOMAIN lists = 1 .. n,
         \A i \in 1 .. n : \E m \in Nat : DOMAIN lists[i] = 1 .. m
  PROVE  /\ Cardinality(Cells(lists)) \in Nat
         /\ RowByRow(Cells(lists)) \in [1 .. Cardinality(Cells(lists)) -> Cells(lists)]
         /\ ToSet(RowByRow(Cells(lists))) = Cells(lists)
<1>. DEFINE cells == Cells(lists)
            key == Rowwise(cells)
<1>1. /\ IsFiniteSet(cells)
      /\ \A c \in cells : c[1] \in 1 .. n /\ c[2] \in Nat /\ c = <<c[1], c[2]>>
      /\ key \in [cells -> Int]
      /\ \A c, d \in cells : key[c] < key[d] <=> c[1] < d[1] \/ (c[1] = d[1] /\ c[2] < d[2])
  BY CellsKeyed
<1>2. RowByRow(cells) = Arranged(cells, key)  BY DEF RowByRow, Rowwise
<1>. HIDE DEF cells, key
<1>3. ASSUME NEW c \in cells, NEW d \in cells, key[c] = key[d] PROVE c = d
  <2>1. ~(key[c] < key[d]) /\ ~(key[d] < key[c])  BY <1>1, <1>3
  <2>. QED  BY <1>1, <2>1
<1>. QED  BY <1>1, <1>2, <1>3, ArrangedFacts DEF cells

\* Gathered keeps every member of every sequence and has no other.
LEMMA GatheredFacts ==
  ASSUME NEW T, NEW n \in Nat, NEW lists, DOMAIN lists = 1 .. n,
         \A i \in 1 .. n : lists[i] \in Seq(T)
  PROVE  /\ Gathered(lists) \in Seq(T)
         /\ ToSet(Gathered(lists)) = UNION {ToSet(lists[i]) : i \in 1 .. n}
<1>. DEFINE cells == Cells(lists)
            size == Cardinality(cells)
            a == RowByRow(cells)
            s == Gathered(lists)
<1>1. \A i \in 1 .. n : /\ Len(lists[i]) \in Nat /\ DOMAIN lists[i] = 1 .. Len(lists[i])
                        /\ \A j \in DOMAIN lists[i] : lists[i][j] \in T
  BY LenProperties, ElementOfSeq
<1>2. size \in Nat /\ a \in [1 .. size -> cells] /\ ToSet(a) = cells
  BY <1>1, RowsListed
<1>3. s = [k \in 1 .. size |-> lists[a[k][1]][a[k][2]]]  BY DEF Gathered
<1>4. \A c \in cells : c[1] \in 1 .. n /\ c[2] \in DOMAIN lists[c[1]]  BY DEF Cells
<1>5. \A i \in 1 .. n : \A j \in DOMAIN lists[i] : <<i, j>> \in cells  BY DEF Cells
<1>. HIDE DEF cells, size, a, s
<1>6. \A k \in 1 .. size : a[k] \in cells /\ s[k] = lists[a[k][1]][a[k][2]]  BY <1>2, <1>3
<1>7. s \in Seq(T)
  <2>1. \A k \in 1 .. size : lists[a[k][1]][a[k][2]] \in T  BY <1>1, <1>4, <1>6
  <2>2. [k \in 1 .. size |-> lists[a[k][1]][a[k][2]]] \in Seq(T)  BY <1>2, <2>1, IsASeq
  <2>. QED  BY <1>3, <2>2
<1>8. ToSet(s) = UNION {ToSet(lists[i]) : i \in 1 .. n}
  <2>1. ASSUME NEW x \in ToSet(s) PROVE \E i \in 1 .. n : x \in ToSet(lists[i])
    <3>1. PICK k \in 1 .. size : s[k] = x  BY <1>3 DEF ToSet
    <3>. QED  BY <1>4, <1>6, <3>1 DEF ToSet
  <2>2. ASSUME NEW i \in 1 .. n, NEW x \in ToSet(lists[i]) PROVE x \in ToSet(s)
    <3>1. PICK j \in DOMAIN lists[i] : lists[i][j] = x  BY DEF ToSet
    <3>2. PICK k \in 1 .. size : a[k] = <<i, j>>  BY <1>2, <1>5 DEF ToSet
    <3>3. s[k] = x  BY <1>6, <3>1, <3>2
    <3>. QED  BY <1>3, <3>3 DEF ToSet
  <2>. QED  BY <2>1, <2>2
<1>. QED  BY <1>7, <1>8 DEF s

\* Sequences as long as each other are gathered in the same way.
LEMMA GatheredAlike ==
  ASSUME NEW n \in Nat, NEW lists, NEW others, DOMAIN lists = 1 .. n, DOMAIN others = 1 .. n,
         \A i \in 1 .. n : DOMAIN lists[i] = DOMAIN others[i],
         \A i \in 1 .. n : \E m \in Nat : DOMAIN lists[i] = 1 .. m
  PROVE  /\ DOMAIN Gathered(lists) = DOMAIN Gathered(others)
         /\ \A k \in DOMAIN Gathered(lists) :
              \E i \in 1 .. n : \E j \in DOMAIN lists[i] :
                Gathered(lists)[k] = lists[i][j] /\ Gathered(others)[k] = others[i][j]
<1>. DEFINE cells == Cells(lists)
            size == Cardinality(cells)
            a == RowByRow(cells)
<1>1. Cells(others) = cells  BY DEF Cells
<1>2. size \in Nat /\ a \in [1 .. size -> cells]  BY RowsListed
<1>3. \A c \in cells : c[1] \in 1 .. n /\ c[2] \in DOMAIN lists[c[1]]  BY DEF Cells
<1>4. /\ Gathered(lists) = [k \in 1 .. size |-> lists[a[k][1]][a[k][2]]]
      /\ Gathered(others) = [k \in 1 .. size |-> others[a[k][1]][a[k][2]]]
  BY <1>1 DEF Gathered
<1>. HIDE DEF cells, size, a
<1>5. \A k \in 1 .. size : a[k] \in cells  BY <1>2
<1>6. ASSUME NEW k \in 1 .. size
      PROVE  \E i \in 1 .. n : \E j \in DOMAIN lists[i] :
               Gathered(lists)[k] = lists[i][j] /\ Gathered(others)[k] = others[i][j]
  <2>1. a[k][1] \in 1 .. n /\ a[k][2] \in DOMAIN lists[a[k][1]]  BY <1>3, <1>5
  <2>2. /\ Gathered(lists)[k] = lists[a[k][1]][a[k][2]]
        /\ Gathered(others)[k] = others[a[k][1]][a[k][2]]
    BY <1>4
  <2>. QED  BY <2>1, <2>2
<1>7. DOMAIN Gathered(lists) = 1 .. size /\ DOMAIN Gathered(others) = 1 .. size  BY <1>4
<1>. QED  BY <1>6, <1>7

-----------------------------------------------------------------------------
(***************************************************************************)
(* The report.  All that is asked of the results of an analysis is that    *)
(* each has one of the four levels.                                        *)
(***************************************************************************)

\* The levels have their ranks, and what is no level withholds nothing.
LEMMA Ranks ==
  /\ DOMAIN LevelRank = {"none", "note", "warning", "error"}
  /\ \A level \in DOMAIN LevelRank : LevelRank[level] \in 0 .. 3
  /\ LevelRank["none"] = 0
  /\ \A value : ParseLevel(value) \in DOMAIN LevelRank
<1>1. DOMAIN LevelRank = {"none", "note", "warning", "error"}  BY DEF LevelRank
<1>2. \A level \in DOMAIN LevelRank : LevelRank[level] \in 0 .. 3  BY DEF LevelRank
<1>3. LevelRank["none"] = 0  BY DEF LevelRank
<1>4. \A value : ParseLevel(value) \in DOMAIN LevelRank  BY <1>1 DEF ParseLevel
<1>. QED  BY <1>1, <1>2, <1>3, <1>4

\* The results an analysis may hand over.
Graded(R) == \A r \in R : r.level \in DOMAIN LevelRank

LEMMA GradedSeverity ==
  ASSUME NEW R, Graded(R), NEW r \in R
  PROVE  Severity(r) \in 0 .. 3
BY Ranks DEF Graded, Severity

\* filterResults withholds exactly what is below the level, and keeps the order.
LEMMA FilterFacts ==
  ASSUME NEW R, Graded(R), NEW all \in Seq(R), NEW minLevel
  PROVE  /\ FilterResults(all, minLevel) \in Seq(R)
         /\ ToSet(FilterResults(all, minLevel))
              = {r \in ToSet(all) : Severity(r) >= LevelRank[minLevel]}
         /\ \A i, j \in DOMAIN FilterResults(all, minLevel) : i < j =>
              \E k, l \in DOMAIN all : /\ k < l
                                       /\ all[k] = FilterResults(all, minLevel)[i]
                                       /\ all[l] = FilterResults(all, minLevel)[j]
<1>. DEFINE I == {i \in DOMAIN all : Severity(all[i]) >= LevelRank[minLevel]}
            kept == FilterResults(all, minLevel)
            n == Cardinality(I)
<1>1. kept = Extract(all, I)  BY DEF FilterResults
<1>2. I \in SUBSET DOMAIN all  OBVIOUS
<1>3. ToSet(all) = {all[i] : i \in DOMAIN all}  BY DEF ToSet
<1>4. {all[i] : i \in I} = {r \in ToSet(all) : Severity(r) >= LevelRank[minLevel]}
  BY <1>3
<1>. HIDE DEF I, kept, n
<1>5. /\ kept \in Seq(R) /\ Len(kept) = n /\ n \in Nat
      /\ ToSet(kept) = {all[i] : i \in I}
      /\ \A k \in 1 .. n : Ascending(I)[k] \in I /\ kept[k] = all[Ascending(I)[k]]
      /\ \A i, j \in 1 .. n : i < j => Ascending(I)[i] < Ascending(I)[j]
  BY <1>1, <1>2, ExtractFacts DEF n
<1>6. DOMAIN kept = 1 .. n  BY <1>5, LenProperties
<1>7. ASSUME NEW i \in DOMAIN kept, NEW j \in DOMAIN kept, i < j
      PROVE  \E k, l \in DOMAIN all : k < l /\ all[k] = kept[i] /\ all[l] = kept[j]
  BY <1>2, <1>5, <1>6, <1>7
<1>. QED  BY <1>4, <1>5, <1>7 DEF kept

\* The key of sortResults: the level decides, then the position.
LEMMA KeysTell ==
  ASSUME NEW n \in Nat, NEW i \in 1 .. n, NEW j \in 1 .. n, NEW x \in 0 .. 3, NEW y \in 0 .. 3
  PROVE  /\ i - n * x = j - n * y => i = j
         /\ i - n * x < j - n * y => x > y \/ (x = y /\ i < j)
<1>. DEFINE p == n * x
            q == n * y
<1>1. /\ p \in Int /\ q \in Int
      /\ x \in {0, 1, 2, 3} /\ y \in {0, 1, 2, 3}
      /\ n * 0 = 0 /\ n * 1 = n /\ n * 2 = n + n /\ n * 3 = n + n + n
  OBVIOUS
<1>2. x < y => p + n <= q  BY <1>1
<1>3. y < x => q + n <= p  BY <1>1
<1>4. x = y => p = q  OBVIOUS
<1>. HIDE DEF p, q
<1>5. /\ i - p = j - q => i = j
      /\ i - p < j - q => x > y \/ (x = y /\ i < j)
  BY <1>1, <1>2, <1>3, <1>4
<1>. QED  BY <1>5 DEF p, q

\* sortResults rearranges the results, the worst first, and is stable.
LEMMA SortFacts ==
  ASSUME NEW R, Graded(R), NEW kept \in Seq(R)
  PROVE  /\ SortResults(kept) \in Seq(R)
         /\ ToSet(SortResults(kept)) = ToSet(kept)
         /\ \A i, j \in DOMAIN SortResults(kept) : i < j =>
              \E k, l \in DOMAIN kept :
                /\ kept[k] = SortResults(kept)[i] /\ kept[l] = SortResults(kept)[j]
                /\ \/ Severity(kept[k]) > Severity(kept[l])
                   \/ Severity(kept[k]) = Severity(kept[l]) /\ k < l
<1>. DEFINE D == DOMAIN kept
            n == Len(kept)
            sev == [i \in D |-> Severity(kept[i])]
            key == [i \in D |-> i - n * sev[i]]
            a == Arranged(D, key)
            sorted == SortResults(kept)
<1>1. n \in Nat /\ D = 1 .. n /\ \A i \in D : kept[i] \in R
  BY LenProperties, ElementOfSeq
<1>2. sev \in [D -> 0 .. 3]  BY <1>1, GradedSeverity
<1>3. \A i \in D : sev[i] = Severity(kept[i])  OBVIOUS
<1>4. sorted = [k \in D |-> kept[a[k]]]
  <2>1. key = [i \in D |-> i - n * Severity(kept[i])]  OBVIOUS
  <2>. HIDE DEF key, sev
  <2>. QED  BY <2>1 DEF SortResults
<1>5. IsFiniteSet(D) /\ Cardinality(D) = n  BY <1>1, FS_Interval
<1>. HIDE DEF sev, D, n
<1>6. \A i \in D : key[i] \in Int /\ key[i] = i - n * sev[i]  BY <1>1, <1>2
<1>7. key \in [D -> Int]  BY <1>6
<1>8. ASSUME NEW i \in D, NEW j \in D
      PROVE  /\ key[i] = key[j] => i = j
             /\ key[i] < key[j] => sev[i] > sev[j] \/ (sev[i] = sev[j] /\ i < j)
  <2>1. /\ i \in 1 .. n /\ j \in 1 .. n /\ sev[i] \in 0 .. 3 /\ sev[j] \in 0 .. 3
        /\ key[i] = i - n * sev[i] /\ key[j] = j - n * sev[j]
    BY <1>1, <1>2, <1>6
  <2>. HIDE DEF key
  <2>2. /\ i - n * sev[i] = j - n * sev[j] => i = j
        /\ i - n * sev[i] < j - n * sev[j] => sev[i] > sev[j] \/ (sev[i] = sev[j] /\ i < j)
    BY <1>1, <2>1, KeysTell, Zenon
  <2>. QED  BY <2>1, <2>2
<1>. HIDE DEF key, a
<1>9. /\ a \in [1 .. n -> D] /\ ToSet(a) = D
      /\ \A i, j \in 1 .. n : i < j => key[a[i]] < key[a[j]]
  <2>1. \A x, y \in D : key[x] = key[y] => x = y  BY <1>8
  <2>. QED  BY <1>5, <1>7, <2>1, ArrangedFacts DEF a
<1>10. sorted \in Seq(R) /\ DOMAIN sorted = D
  <2>1. \A k \in 1 .. n : kept[a[k]] \in R  BY <1>1, <1>9
  <2>2. [k \in 1 .. n |-> kept[a[k]]] \in Seq(R)  BY <1>1, <2>1
  <2>. QED  BY <1>1, <1>4, <2>2
<1>11. ToSet(sorted) = ToSet(kept)
  <2>1. ASSUME NEW x \in ToSet(sorted) PROVE x \in ToSet(kept)
    BY <1>1, <1>4, <1>9 DEF ToSet, D
  <2>2. ASSUME NEW x \in ToSet(kept) PROVE x \in ToSet(sorted)
    <3>1. PICK i \in D : kept[i] = x  BY DEF ToSet, D
    <3>2. PICK k \in 1 .. n : a[k] = i  BY <1>9 DEF ToSet
    <3>3. sorted[k] = x  BY <1>1, <1>4, <3>1, <3>2
    <3>. QED  BY <1>1, <1>10, <3>3 DEF ToSet
  <2>. QED  BY <2>1, <2>2
<1>12. ASSUME NEW i \in D, NEW j \in D, i < j
       PROVE  \E k, l \in D : /\ kept[k] = sorted[i] /\ kept[l] = sorted[j]
                              /\ \/ Severity(kept[k]) > Severity(kept[l])
                                 \/ Severity(kept[k]) = Severity(kept[l]) /\ k < l
  <2>. DEFINE k == a[i]
              l == a[j]
  <2>1. k \in D /\ l \in D /\ key[k] < key[l]  BY <1>1, <1>9, <1>12
  <2>2. kept[k] = sorted[i] /\ kept[l] = sorted[j]  BY <1>4
  <2>. HIDE DEF k, l, sorted
  <2>3. sev[k] > sev[l] \/ (sev[k] = sev[l] /\ k < l)  BY <1>8, <2>1
  <2>. QED  BY <1>3, <2>1, <2>2, <2>3
<1>. HIDE DEF sorted
<1>. QED  BY <1>10, <1>11, <1>12 DEF sorted, D

\* buildRules lists every rule raised, each once.
LEMMA BuildFacts ==
  ASSUME NEW R, NEW all \in Seq(R)
  PROVE  /\ BuildRules(all) \in Seq({r.rule : r \in R})
         /\ IsInjective(BuildRules(all))
         /\ ToSet(BuildRules(all)) = {r.rule : r \in ToSet(all)}
<1>. DEFINE D == DOMAIN all
            T == {r.rule : r \in R}
            s == [i \in D |-> all[i].rule]
            I == {i \in D : \A j \in 1 .. i - 1 : all[j].rule # all[i].rule}
            t == BuildRules(all)
            n == Cardinality(I)
<1>1. Len(all) \in Nat /\ D = 1 .. Len(all) /\ \A i \in D : all[i] \in R
  BY LenProperties, ElementOfSeq
<1>2. t = Extract(s, I)  BY DEF BuildRules
<1>3. s \in Seq(T) /\ DOMAIN s = D
  <2>1. \A i \in 1 .. Len(all) : all[i].rule \in T  BY <1>1
  <2>. HIDE DEF T
  <2>2. [i \in 1 .. Len(all) |-> all[i].rule] \in Seq(T)  BY <1>1, <2>1
  <2>. QED  BY <1>1, <2>2
<1>4. I \in SUBSET DOMAIN s  BY <1>3
<1>5. \A i \in I : \A j \in D : j < i => s[j] # s[i]  BY <1>1
<1>6. ASSUME NEW i \in D PROVE \E j \in I : s[j] = s[i]
  <2>. DEFINE same == {j \in D : s[j] = s[i]}
  <2>1. same \in SUBSET DOMAIN s /\ i \in same  BY <1>3
  <2>2. IsFiniteSet(same) /\ same \in SUBSET Int
    <3>. HIDE DEF same, s
    <3>. QED  BY <1>3, <2>1, PositionsFinite
  <2>3. PICK j \in same : \A k \in same : j <= k
    <3>. HIDE DEF same
    <3>. QED  BY <2>1, <2>2, LeastOf
  <2>4. ASSUME NEW k \in 1 .. j - 1 PROVE all[k].rule # all[j].rule
    <3>1. k \in D /\ k < j  BY <1>1
    <3>. QED  BY <1>1, <2>3, <3>1
  <2>. QED  BY <2>3, <2>4
<1>7. \A i \in D : s[i] = all[i].rule  OBVIOUS
<1>. HIDE DEF s, I, T, t, n
<1>8. /\ t \in Seq(T) /\ Len(t) = n /\ n \in Nat
      /\ ToSet(t) = {s[i] : i \in I}
      /\ \A k \in 1 .. n : Ascending(I)[k] \in I /\ t[k] = s[Ascending(I)[k]]
      /\ \A i, j \in 1 .. n : i < j => Ascending(I)[i] < Ascending(I)[j]
  BY <1>2, <1>3, <1>4, ExtractFacts DEF n
<1>9. IsInjective(t)
  <2>1. DOMAIN t = 1 .. n  BY <1>8, LenProperties
  <2>2. ASSUME NEW i \in 1 .. n, NEW j \in 1 .. n, i < j PROVE t[i] # t[j]
    <3>. DEFINE k == Ascending(I)[i]
                l == Ascending(I)[j]
    <3>1. k \in I /\ l \in I /\ k < l /\ t[i] = s[k] /\ t[j] = s[l]  BY <1>8, <2>2
    <3>2. k \in D  BY <1>3, <1>4, <3>1
    <3>. HIDE DEF k, l
    <3>. QED  BY <1>5, <3>1, <3>2
  <2>3. \A i, j \in 1 .. n : i < j \/ j < i \/ i = j  BY <1>8
  <2>. QED  BY <2>1, <2>2, <2>3 DEF IsInjective
<1>10. ToSet(t) = {r.rule : r \in ToSet(all)}
  <2>1. ToSet(all) = {all[i] : i \in D}  BY DEF ToSet
  <2>2. {s[i] : i \in I} = {s[i] : i \in D}  BY <1>3, <1>4, <1>6
  <2>3. {s[i] : i \in D} = {all[i].rule : i \in D}  BY <1>7
  <2>4. {all[i].rule : i \in D} = {r.rule : r \in ToSet(all)}  BY <2>1
  <2>. QED  BY <1>8, <2>2, <2>3, <2>4
<1>. QED  BY <1>8, <1>9, <1>10 DEF t, T

\* pruneRules keeps the rules of what is shown, each once if it was so before.
LEMMA PruneFacts ==
  ASSUME NEW T, NEW rules \in Seq(T), IsInjective(rules), NEW shown
  PROVE  /\ IsInjective(PruneRules(rules, shown))
         /\ ToSet(PruneRules(rules, shown))
              = {id \in ToSet(rules) : \E r \in ToSet(shown) : r.rule = id}
<1>. DEFINE I == {i \in DOMAIN rules : \E r \in ToSet(shown) : r.rule = rules[i]}
            t == PruneRules(rules, shown)
            n == Cardinality(I)
<1>1. t = Extract(rules, I) /\ I \in SUBSET DOMAIN rules  BY DEF PruneRules
<1>2. ToSet(rules) = {rules[i] : i \in DOMAIN rules}  BY DEF ToSet
<1>3. {rules[i] : i \in I} = {id \in ToSet(rules) : \E r \in ToSet(shown) : r.rule = id}
  BY <1>2
<1>. HIDE DEF I, t, n
<1>4. /\ t \in Seq(T) /\ Len(t) = n /\ n \in Nat
      /\ ToSet(t) = {rules[i] : i \in I}
      /\ \A k \in 1 .. n : Ascending(I)[k] \in I /\ t[k] = rules[Ascending(I)[k]]
      /\ \A i, j \in 1 .. n : i < j => Ascending(I)[i] < Ascending(I)[j]
  BY <1>1, ExtractFacts DEF n
<1>5. IsInjective(t)
  <2>1. DOMAIN t = 1 .. n  BY <1>4, LenProperties
  <2>2. ASSUME NEW i \in 1 .. n, NEW j \in 1 .. n, i < j PROVE t[i] # t[j]
    <3>. DEFINE k == Ascending(I)[i]
                l == Ascending(I)[j]
    <3>1. k \in I /\ l \in I /\ k < l /\ t[i] = rules[k] /\ t[j] = rules[l]  BY <1>4, <2>2
    <3>2. k \in Int /\ l \in Int  BY <1>1, <3>1, PositionsFinite
    <3>. HIDE DEF k, l
    <3>. QED  BY <1>1, <3>1, <3>2 DEF IsInjective
  <2>3. \A i, j \in 1 .. n : i < j \/ j < i \/ i = j  BY <1>4
  <2>. QED  BY <2>1, <2>2, <2>3 DEF IsInjective
<1>. QED  BY <1>3, <1>4, <1>5 DEF t
=============================================================================
