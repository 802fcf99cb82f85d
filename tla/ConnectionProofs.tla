-------------------------- MODULE ConnectionProofs --------------------------
(***************************************************************************)
(* One connection, for every hello, every flight, every session and every  *)
(* way it is cut into reads: the lengths and the size of the hello, what   *)
(* the read loop makes of the records it has read, and what the loop over  *)
(* the records of a session makes of its tickets.                          *)
(***************************************************************************)
EXTENDS Connection, ReportProofs

-----------------------------------------------------------------------------
(***************************************************************************)
(* What numbers add up to.                                                 *)
(***************************************************************************)

\* The units of the numbers in a sequence.
UnitsOf(sizes) == UNION {{i} \X (1 .. sizes[i]) : i \in DOMAIN sizes}

LEMMA UnitsFinite ==
  ASSUME NEW n \in Nat, NEW sizes \in [1 .. n -> Nat]
  PROVE  /\ IsFiniteSet(UnitsOf(sizes))
         /\ Total(sizes) = Cardinality(UnitsOf(sizes)) /\ Total(sizes) \in Nat
         /\ \A c : c \in UnitsOf(sizes)
              <=> c = <<c[1], c[2]>> /\ c[1] \in 1 .. n /\ c[2] \in 1 .. sizes[c[1]]
<1>. DEFINE lists == [i \in 1 .. n |-> [k \in 1 .. sizes[i] |-> k]]
<1>1. DOMAIN lists = 1 .. n /\ \A i \in 1 .. n : DOMAIN lists[i] = 1 .. sizes[i]  OBVIOUS
<1>2. Cells(lists) = UnitsOf(sizes)  BY <1>1 DEF Cells, UnitsOf
<1>3. \A i \in 1 .. n : \E m \in Nat : DOMAIN lists[i] = 1 .. m  BY <1>1
<1>. HIDE DEF lists
<1>4. IsFiniteSet(UnitsOf(sizes))  BY <1>1, <1>2, <1>3, CellsKeyed
<1>5. Total(sizes) = Cardinality(UnitsOf(sizes))  BY DEF Total, UnitsOf
<1>6. \A c : c \in UnitsOf(sizes)
               <=> c = <<c[1], c[2]>> /\ c[1] \in 1 .. n /\ c[2] \in 1 .. sizes[c[1]]
  BY DEF UnitsOf
<1>. QED  BY <1>4, <1>5, <1>6, FS_CardinalityType

\* Nothing adds up to nothing.
LEMMA TotalNone == ASSUME NEW sizes, DOMAIN sizes = {} PROVE Total(sizes) = 0
<1>1. UNION {{i} \X (1 .. sizes[i]) : i \in DOMAIN sizes} = {}  OBVIOUS
<1>. QED  BY <1>1, FS_EmptySet DEF Total

\* The first few of some numbers add up to no more than all of them, and to less
\* if one of the others is not 0.
LEMMA TotalFirst ==
  ASSUME NEW n \in Nat, NEW sizes \in [1 .. n -> Nat],
         NEW m \in 0 .. n, NEW first \in [1 .. m -> Nat], \A i \in 1 .. m : first[i] = sizes[i]
  PROVE  /\ Total(first) <= Total(sizes)
         /\ \A i \in 1 .. n : i > m /\ sizes[i] > 0 => Total(first) < Total(sizes)
<1>1. /\ IsFiniteSet(UnitsOf(sizes)) /\ Total(sizes) = Cardinality(UnitsOf(sizes))
      /\ Total(sizes) \in Nat
      /\ \A c : c \in UnitsOf(sizes)
           <=> c = <<c[1], c[2]>> /\ c[1] \in 1 .. n /\ c[2] \in 1 .. sizes[c[1]]
  BY UnitsFinite
<1>2. /\ Total(first) = Cardinality(UnitsOf(first)) /\ Total(first) \in Nat
      /\ \A c : c \in UnitsOf(first)
           <=> c = <<c[1], c[2]>> /\ c[1] \in 1 .. m /\ c[2] \in 1 .. first[c[1]]
  BY UnitsFinite
<1>3. UnitsOf(first) \subseteq UnitsOf(sizes)  BY <1>1, <1>2
<1>4. /\ Cardinality(UnitsOf(first)) <= Cardinality(UnitsOf(sizes))
      /\ Cardinality(UnitsOf(sizes)) = Cardinality(UnitsOf(first)) => UnitsOf(first) = UnitsOf(sizes)
  BY <1>1, <1>3, FS_Subset
<1>5. ASSUME NEW i \in 1 .. n, i > m, sizes[i] > 0 PROVE UnitsOf(first) # UnitsOf(sizes)
  <2>1. <<i, 1>>[1] = i /\ <<i, 1>>[2] = 1 /\ 1 \in 1 .. sizes[i]  BY <1>5
  <2>2. <<i, 1>> \in UnitsOf(sizes)  BY <1>1, <2>1
  <2>3. <<i, 1>> \notin UnitsOf(first)  BY <1>2, <1>5, <2>1
  <2>. QED  BY <2>2, <2>3
<1>. QED  BY <1>1, <1>2, <1>4, <1>5

\* One more number adds itself.
LEMMA TotalMore ==
  ASSUME NEW n \in Nat, NEW sizes \in [1 .. n -> Nat], NEW more \in [1 .. n + 1 -> Nat],
         \A i \in 1 .. n : more[i] = sizes[i]
  PROVE  Total(more) = Total(sizes) + more[n + 1]
<1>. DEFINE k == more[n + 1]
            last == {n + 1} \X (1 .. k)
<1>1. /\ IsFiniteSet(UnitsOf(sizes)) /\ Total(sizes) = Cardinality(UnitsOf(sizes))
      /\ Total(sizes) \in Nat
      /\ \A c : c \in UnitsOf(sizes)
           <=> c = <<c[1], c[2]>> /\ c[1] \in 1 .. n /\ c[2] \in 1 .. sizes[c[1]]
  BY UnitsFinite
<1>2. /\ Total(more) = Cardinality(UnitsOf(more))
      /\ \A c : c \in UnitsOf(more)
           <=> c = <<c[1], c[2]>> /\ c[1] \in 1 .. n + 1 /\ c[2] \in 1 .. more[c[1]]
  <2>1. n + 1 \in Nat  OBVIOUS
  <2>. QED  BY <2>1, UnitsFinite
<1>3. k \in Nat  OBVIOUS
<1>4. \A c : c \in last <=> c = <<c[1], c[2]>> /\ c[1] = n + 1 /\ c[2] \in 1 .. k  OBVIOUS
<1>5. UnitsOf(more) = UnitsOf(sizes) \cup last /\ UnitsOf(sizes) \cap last = {}
  <2>. HIDE DEF last
  <2>1. ASSUME NEW c PROVE c \in UnitsOf(more) <=> c \in UnitsOf(sizes) \/ c \in last
    <3>1. c[1] \in 1 .. n + 1 <=> c[1] \in 1 .. n \/ c[1] = n + 1  OBVIOUS
    <3>. QED  BY <1>1, <1>2, <1>4, <3>1
  <2>2. ASSUME NEW c PROVE ~(c \in UnitsOf(sizes) /\ c \in last)  BY <1>1, <1>4
  <2>. QED  BY <2>1, <2>2
<1>6. IsFiniteSet(last) /\ Cardinality(last) = k
  <2>1. IsFiniteSet({n + 1}) /\ Cardinality({n + 1}) = 1  BY FS_Singleton
  <2>2. IsFiniteSet(1 .. k) /\ Cardinality(1 .. k) = k
    <3>. HIDE DEF k
    <3>1. 1 \in Int /\ k \in Int /\ (1 > k => k = 0)  BY <1>3
    <3>2. /\ IsFiniteSet(1 .. k)
          /\ Cardinality(1 .. k) = IF 1 > k THEN 0 ELSE k - 1 + 1
      BY <3>1, FS_Interval
    <3>. QED  BY <1>3, <3>1, <3>2
  <2>3. IsFiniteSet(last) /\ Cardinality(last) = Cardinality({n + 1}) * Cardinality(1 .. k)
    <3>. HIDE DEF k
    <3>. QED  BY <2>1, <2>2, FS_Product
  <2>. HIDE DEF last, k
  <2>. QED  BY <1>3, <2>1, <2>2, <2>3
<1>. HIDE DEF last
<1>7. Cardinality(UnitsOf(sizes) \cup last)
        = Cardinality(UnitsOf(sizes)) + Cardinality(last) - Cardinality(UnitsOf(sizes) \cap last)
  BY <1>1, <1>6, FS_Union
<1>8. Cardinality(UnitsOf(sizes) \cap last) = 0  BY <1>5, FS_EmptySet
<1>. QED  BY <1>1, <1>2, <1>3, <1>5, <1>6, <1>7, <1>8

\* No number is more than what they add up to.
LEMMA TotalOver ==
  ASSUME NEW n \in Nat, NEW sizes \in [1 .. n -> Nat], NEW i \in 1 .. n
  PROVE  sizes[i] <= Total(sizes)
<1>. DEFINE before == [j \in 1 .. i - 1 |-> sizes[j]]
            upto == [j \in 1 .. i |-> sizes[j]]
<1>1. /\ i \in Nat /\ i - 1 \in Nat /\ (i - 1) + 1 = i /\ i \in 0 .. n
      /\ before \in [1 .. i - 1 -> Nat] /\ upto \in [1 .. (i - 1) + 1 -> Nat]
      /\ \A j \in 1 .. i - 1 : upto[j] = before[j]
      /\ upto \in [1 .. i -> Nat] /\ \A j \in 1 .. i : upto[j] = sizes[j]
  OBVIOUS
<1>. HIDE DEF before, upto
<1>2. Total(upto) = Total(before) + upto[(i - 1) + 1]  BY <1>1, TotalMore
<1>3. Total(before) \in Nat /\ Total(upto) \in Nat /\ Total(sizes) \in Nat  BY <1>1, UnitsFinite
<1>4. Total(upto) <= Total(sizes)  BY <1>1, TotalFirst
<1>5. upto[(i - 1) + 1] = sizes[i] /\ sizes[i] \in Nat  BY <1>1
<1>. QED  BY <1>2, <1>3, <1>4, <1>5

-----------------------------------------------------------------------------
(***************************************************************************)
(* The hello.                                                              *)
(***************************************************************************)

\* The numbers of a hello.
IsHello(asked) ==
  /\ asked.suites \in Nat /\ asked.sessionId \in Nat /\ asked.compression \in Nat
  /\ asked.name \in Nat /\ asked.groups \in Nat /\ asked.algorithms \in Nat
  /\ asked.versions \in 0 .. 127

LengthFields == [says : Nat, holds : Nat]

\* A length that is not too large for its field says what it stands before.
Right(length) == length.holds <= 65535 => length.says = length.holds

\* A block whose lengths are right and stand before nothing outside of it.
IsBlock(block) ==
  /\ block.bytes \in Nat /\ block.lengths \in Seq(LengthFields)
  /\ \A p \in ToSet(block.lengths) : Right(p) /\ p.holds <= block.bytes

LEMMA PrefixRight ==
  ASSUME NEW n \in Nat
  PROVE  /\ Prefix(ToUint16(n), n) \in LengthFields /\ Right(Prefix(ToUint16(n), n))
         /\ Prefix(ToUint16(n), n).holds = n
         /\ n <= 255 => /\ Prefix(ToByte(n), n) \in LengthFields /\ Right(Prefix(ToByte(n), n))
                        /\ Prefix(ToByte(n), n).holds = n
BY DEF Prefix, ToUint16, ToByte, LengthFields, Right

\* A block with its own length before those within is right if those are.
LEMMA BlockRight ==
  ASSUME NEW type, NEW size \in Nat, NEW inner \in Seq(LengthFields),
         \A p \in ToSet(inner) : Right(p) /\ p.holds <= size
  PROVE  IsBlock(Block(type, inner, size)) /\ Block(type, inner, size).type = type
<1>. DEFINE b == Block(type, inner, size)
            own == Prefix(ToUint16(size), size)
<1>1. b.type = type /\ b.bytes = 4 + size /\ b.lengths = <<own>> \o inner  BY DEF Block
<1>2. own \in LengthFields /\ Right(own) /\ own.holds = size  BY PrefixRight
<1>. HIDE DEF b, own
<1>3. <<own>> \in Seq(LengthFields) /\ ToSet(<<own>>) = {own}
  <2>1. <<own>> \in Seq(LengthFields)  BY <1>2
  <2>2. DOMAIN <<own>> = {1} /\ <<own>>[1] = own  OBVIOUS
  <2>. QED  BY <2>1, <2>2 DEF ToSet
<1>4. b.lengths \in Seq(LengthFields) /\ ToSet(b.lengths) = {own} \cup ToSet(inner)
  <2>. DEFINE first == <<own>>
  <2>1. first \o inner \in Seq(LengthFields) /\ ToSet(first \o inner) = ToSet(first) \cup ToSet(inner)
    <3>1. first \in Seq(LengthFields)  BY <1>3
    <3>. HIDE DEF first
    <3>. QED  BY <3>1, ConcatSet
  <2>. QED  BY <1>1, <1>3, <2>1
<1>5. \A p \in ToSet(b.lengths) : Right(p) /\ p.holds <= b.bytes
  <2>1. \A p \in ToSet(inner) : p.holds \in Nat
    <3>1. ToSet(inner) \subseteq LengthFields
      BY LenProperties, ElementOfSeq DEF ToSet
    <3>. QED  BY <3>1 DEF LengthFields
  <2>. QED  BY <1>1, <1>2, <1>4, <2>1
<1>6. IsBlock(b)  BY <1>1, <1>4, <1>5 DEF IsBlock
<1>. QED  BY <1>1, <1>6 DEF b

\* What is within a block: nothing, one length or two.
LEMMA Within ==
  /\ <<>> \in Seq(LengthFields) /\ ToSet(<<>>) = {}
  /\ \A p \in LengthFields : <<p>> \in Seq(LengthFields) /\ ToSet(<<p>>) = {p}
  /\ \A p, q \in LengthFields : <<p, q>> \in Seq(LengthFields) /\ ToSet(<<p, q>>) = {p, q}
<1>1. <<>> \in Seq(LengthFields) /\ ToSet(<<>>) = {}  BY DEF ToSet
<1>2. ASSUME NEW p \in LengthFields
      PROVE  <<p>> \in Seq(LengthFields) /\ ToSet(<<p>>) = {p}
  <2>1. <<p>> \in Seq(LengthFields) /\ DOMAIN <<p>> = {1} /\ <<p>>[1] = p  OBVIOUS
  <2>. QED  BY <2>1 DEF ToSet
<1>3. ASSUME NEW p \in LengthFields, NEW q \in LengthFields
      PROVE  <<p, q>> \in Seq(LengthFields) /\ ToSet(<<p, q>>) = {p, q}
  <2>1. /\ <<p, q>> \in Seq(LengthFields) /\ DOMAIN <<p, q>> = {1, 2}
        /\ <<p, q>>[1] = p /\ <<p, q>>[2] = q
    OBVIOUS
  <2>. QED  BY <2>1 DEF ToSet
<1>. QED  BY <1>1, <1>2, <1>3

LEMMA KeyShareRight ==
  ASSUME NEW group PROVE IsBlock(KeyShare(group)) /\ KeyShare(group).type = "key_share"
<1>1. CASE group \in DOMAIN KeyBytes
  <2>. DEFINE key == KeyBytes[group]
              p == Prefix(ToUint16(4 + key), 4 + key)
              q == Prefix(ToUint16(key), key)
  <2>1. key \in Nat  BY <1>1 DEF KeyBytes
  <2>2. KeyShare(group) = Block("key_share", <<p, q>>, 6 + key)  BY <1>1 DEF KeyShare
  <2>. HIDE DEF key
  <2>3. 4 + key \in Nat /\ 6 + key \in Nat  BY <2>1
  <2>4. /\ p \in LengthFields /\ Right(p) /\ p.holds = 4 + key
        /\ q \in LengthFields /\ Right(q) /\ q.holds = key
    BY <2>1, <2>3, PrefixRight
  <2>. HIDE DEF p, q
  <2>5. \A r \in ToSet(<<p, q>>) : Right(r) /\ r.holds <= 6 + key  BY <2>1, <2>4, Within
  <2>. DEFINE inner == <<p, q>>
              size == 6 + key
  <2>6. /\ inner \in Seq(LengthFields) /\ size \in Nat
        /\ \A r \in ToSet(inner) : Right(r) /\ r.holds <= size
    BY <2>3, <2>4, <2>5, Within
  <2>7. KeyShare(group) = Block("key_share", inner, size)  BY <2>2
  <2>. HIDE DEF inner, size
  <2>8. /\ IsBlock(Block("key_share", inner, size))
        /\ Block("key_share", inner, size).type = "key_share"
    BY <2>6, BlockRight
  <2>. QED  BY <2>7, <2>8
<1>2. CASE group \notin DOMAIN KeyBytes
  <2>. DEFINE p == Prefix(0, 0)
  <2>1. KeyShare(group) = Block("key_share", <<p>>, 2)  BY <1>2 DEF KeyShare
  <2>2. p \in LengthFields /\ Right(p) /\ p.holds = 0  BY DEF Prefix, LengthFields, Right
  <2>. HIDE DEF p
  <2>3. \A r \in ToSet(<<p>>) : Right(r) /\ r.holds <= 2  BY <2>2, Within
  <2>. DEFINE inner == <<p>>
  <2>4. inner \in Seq(LengthFields) /\ \A r \in ToSet(inner) : Right(r) /\ r.holds <= 2
    BY <2>2, <2>3, Within
  <2>5. KeyShare(group) = Block("key_share", inner, 2)  BY <2>1
  <2>. HIDE DEF inner
  <2>6. IsBlock(Block("key_share", inner, 2)) /\ Block("key_share", inner, 2).type = "key_share"
    BY <2>4, BlockRight
  <2>. QED  BY <2>5, <2>6
<1>. QED  BY <1>1, <1>2

\* A block around no length, or around one that is right.
LEMMA BlockAround ==
  ASSUME NEW type, NEW size \in Nat
  PROVE  /\ IsBlock(Block(type, <<>>, size)) /\ Block(type, <<>>, size).type = type
         /\ \A p \in LengthFields :
              Right(p) /\ p.holds <= size =>
                IsBlock(Block(type, <<p>>, size)) /\ Block(type, <<p>>, size).type = type
<1>1. IsBlock(Block(type, <<>>, size)) /\ Block(type, <<>>, size).type = type
  <2>1. \A r \in ToSet(<<>>) : Right(r) /\ r.holds <= size  BY Within
  <2>. QED  BY <2>1, Within, BlockRight
<1>2. ASSUME NEW p \in LengthFields, Right(p), p.holds <= size
      PROVE  IsBlock(Block(type, <<p>>, size)) /\ Block(type, <<p>>, size).type = type
  <2>. DEFINE inner == <<p>>
  <2>1. inner \in Seq(LengthFields) /\ \A r \in ToSet(inner) : Right(r) /\ r.holds <= size
    BY <1>2, Within
  <2>. HIDE DEF inner
  <2>2. IsBlock(Block(type, inner, size)) /\ Block(type, inner, size).type = type
    BY <2>1, BlockRight
  <2>. QED  BY <2>2 DEF inner
<1>. QED  BY <1>1, <1>2

\* The types of the extensions a hello may have, no two alike.
TypeNames ==
  <<"server_name", "status_request", "supported_groups", "ec_point_formats",
    "signature_algorithms", "extended_master_secret", "session_ticket", "renegotiation_info",
    "supported_versions", "psk_key_exchange_modes", "key_share">>

LEMMA ExtensionsRight ==
  ASSUME NEW asked, IsHello(asked)
  PROVE  /\ DOMAIN Extensions(asked) = 1 .. 11
         /\ \A i \in 1 .. 11 : /\ IsBlock(Extensions(asked)[i].block)
                               /\ Extensions(asked)[i].block.type = TypeNames[i]
         /\ Extensions(asked)[9].wanted => Extensions(asked)[11].wanted
<1>. DEFINE e == Extensions(asked)
            named == 3 + asked.name
            listed(n) == 2 * n
            two == <<Prefix(ToUint16(named), named), Prefix(ToUint16(asked.name), asked.name)>>
            names == Prefix(ToByte(2 * asked.versions), 2 * asked.versions)
            groups == Prefix(ToUint16(2 * asked.groups), 2 * asked.groups)
            algorithms == Prefix(ToUint16(2 * asked.algorithms), 2 * asked.algorithms)
<1>1. /\ DOMAIN e = 1 .. 11
      /\ e[1].block = Block("server_name", two, 2 + named)
      /\ e[2].block = Block("status_request", <<>>, 5)
      /\ e[3].block = Block("supported_groups", <<groups>>, 2 + 2 * asked.groups)
      /\ e[4].block = Block("ec_point_formats", <<Prefix(1, 1)>>, 2)
      /\ e[5].block = Block("signature_algorithms", <<algorithms>>, 2 + 2 * asked.algorithms)
      /\ e[6].block = Block("extended_master_secret", <<>>, 0)
      /\ e[7].block = Block("session_ticket", <<>>, 0)
      /\ e[8].block = Block("renegotiation_info", <<Prefix(0, 0)>>, 1)
      /\ e[9].block = Block("supported_versions", <<names>>, 1 + 2 * asked.versions)
      /\ e[10].block = Block("psk_key_exchange_modes", <<Prefix(1, 1)>>, 2)
      /\ e[11].block = KeyShare(asked.keyShare)
  <2>1. DOMAIN e = 1 .. 11  BY DEF Extensions
  <2>2. e[1].block = Block("server_name", two, 2 + named)  BY DEF Extensions
  <2>3. e[2].block = Block("status_request", <<>>, 5)  BY DEF Extensions
  <2>4. e[3].block = Block("supported_groups", <<groups>>, 2 + 2 * asked.groups)  BY DEF Extensions, Uint16List
  <2>5. e[4].block = Block("ec_point_formats", <<Prefix(1, 1)>>, 2)  BY DEF Extensions
  <2>6. e[5].block = Block("signature_algorithms", <<algorithms>>, 2 + 2 * asked.algorithms)  BY DEF Extensions, Uint16List
  <2>7. e[6].block = Block("extended_master_secret", <<>>, 0)  BY DEF Extensions
  <2>8. e[7].block = Block("session_ticket", <<>>, 0)  BY DEF Extensions
  <2>9. e[8].block = Block("renegotiation_info", <<Prefix(0, 0)>>, 1)  BY DEF Extensions
  <2>10. e[9].block = Block("supported_versions", <<names>>, 1 + 2 * asked.versions)  BY DEF Extensions
  <2>11. e[10].block = Block("psk_key_exchange_modes", <<Prefix(1, 1)>>, 2)  BY DEF Extensions
  <2>12. e[11].block = KeyShare(asked.keyShare)  BY DEF Extensions
  <2>. HIDE DEF e, two, named, names, groups, algorithms
  <2>. QED  BY <2>1, <2>2, <2>3, <2>4, <2>5, <2>6, <2>7, <2>8, <2>9, <2>10, <2>11, <2>12
<1>15. e[9].wanted => e[11].wanted  BY DEF Extensions
<1>. HIDE DEF e
<1>2. /\ asked.name \in Nat /\ named \in Nat /\ 2 + named \in Nat
      /\ 2 * asked.groups \in Nat /\ 2 + 2 * asked.groups \in Nat
      /\ 2 * asked.algorithms \in Nat /\ 2 + 2 * asked.algorithms \in Nat
      /\ 2 * asked.versions \in Nat /\ 1 + 2 * asked.versions \in Nat /\ 2 * asked.versions <= 255
  BY DEF IsHello
<1>3. /\ Prefix(1, 1) \in LengthFields /\ Right(Prefix(1, 1)) /\ Prefix(1, 1).holds = 1
      /\ Prefix(0, 0) \in LengthFields /\ Right(Prefix(0, 0)) /\ Prefix(0, 0).holds = 0
  BY DEF Prefix, LengthFields, Right
<1>4. /\ groups \in LengthFields /\ Right(groups) /\ groups.holds = 2 * asked.groups
      /\ algorithms \in LengthFields /\ Right(algorithms)
      /\ algorithms.holds = 2 * asked.algorithms
      /\ names \in LengthFields /\ Right(names) /\ names.holds = 2 * asked.versions
  <2>. DEFINE g == 2 * asked.groups
              a == 2 * asked.algorithms
              v == 2 * asked.versions
  <2>1. g \in Nat /\ a \in Nat /\ v \in Nat /\ v <= 255  BY <1>2
  <2>2. /\ groups = Prefix(ToUint16(g), g) /\ algorithms = Prefix(ToUint16(a), a)
        /\ names = Prefix(ToByte(v), v)
    OBVIOUS
  <2>. HIDE DEF g, a, v, groups, algorithms, names
  <2>3. groups \in LengthFields /\ Right(groups) /\ groups.holds = g  BY <2>1, <2>2, PrefixRight
  <2>4. algorithms \in LengthFields /\ Right(algorithms) /\ algorithms.holds = a
    BY <2>1, <2>2, PrefixRight
  <2>5. names \in LengthFields /\ Right(names) /\ names.holds = v  BY <2>1, <2>2, PrefixRight
  <2>. QED  BY <2>3, <2>4, <2>5 DEF g, a, v
<1>5. IsBlock(Block("server_name", two, 2 + named)) /\ Block("server_name", two, 2 + named).type = "server_name"
  <2>. DEFINE p == Prefix(ToUint16(named), named)
              q == Prefix(ToUint16(asked.name), asked.name)
              n == asked.name
              size == 2 + named
  <2>1. /\ p \in LengthFields /\ Right(p) /\ p.holds = named
        /\ q \in LengthFields /\ Right(q) /\ q.holds = asked.name
    <3>. HIDE DEF named
    <3>. QED  BY <1>2, PrefixRight
  <2>2. two = <<p, q>>  OBVIOUS
  <2>3. named <= size /\ n <= size /\ size \in Nat /\ q.holds = n  BY <1>2, <2>1
  <2>. HIDE DEF p, q, two, named, size, n
  <2>4. two \in Seq(LengthFields) /\ ToSet(two) = {p, q}  BY <2>1, <2>2, Within
  <2>5. \A r \in ToSet(two) : Right(r) /\ r.holds <= size  BY <2>1, <2>3, <2>4
  <2>6. IsBlock(Block("server_name", two, size)) /\ Block("server_name", two, size).type = "server_name"
    BY <2>3, <2>4, <2>5, BlockRight
  <2>. QED  BY <2>6 DEF size
<1>. DEFINE G == 2 + 2 * asked.groups
            A == 2 + 2 * asked.algorithms
            V == 1 + 2 * asked.versions
<1>6. /\ G \in Nat /\ A \in Nat /\ V \in Nat
      /\ groups.holds <= G /\ algorithms.holds <= A /\ names.holds <= V
  BY <1>2, <1>4
<1>7. /\ e[3].block = Block("supported_groups", <<groups>>, G)
      /\ e[5].block = Block("signature_algorithms", <<algorithms>>, A)
      /\ e[9].block = Block("supported_versions", <<names>>, V)
  BY <1>1
<1>. HIDE DEF groups, algorithms, names, G, A, V, two, named
<1>8. IsBlock(e[1].block) /\ e[1].block.type = "server_name"  BY <1>1, <1>5
<1>9. /\ IsBlock(e[3].block) /\ e[3].block.type = "supported_groups"
      /\ IsBlock(e[5].block) /\ e[5].block.type = "signature_algorithms"
      /\ IsBlock(e[9].block) /\ e[9].block.type = "supported_versions"
  <2>1. /\ IsBlock(Block("supported_groups", <<groups>>, G))
        /\ Block("supported_groups", <<groups>>, G).type = "supported_groups"
    BY <1>4, <1>6, BlockAround
  <2>2. /\ IsBlock(Block("signature_algorithms", <<algorithms>>, A))
        /\ Block("signature_algorithms", <<algorithms>>, A).type = "signature_algorithms"
    BY <1>4, <1>6, BlockAround
  <2>3. /\ IsBlock(Block("supported_versions", <<names>>, V))
        /\ Block("supported_versions", <<names>>, V).type = "supported_versions"
    BY <1>4, <1>6, BlockAround
  <2>. QED  BY <1>7, <2>1, <2>2, <2>3
<1>10. /\ IsBlock(e[2].block) /\ e[2].block.type = "status_request"
       /\ IsBlock(e[6].block) /\ e[6].block.type = "extended_master_secret"
       /\ IsBlock(e[7].block) /\ e[7].block.type = "session_ticket"
  BY <1>1, BlockAround
<1>11. /\ IsBlock(e[4].block) /\ e[4].block.type = "ec_point_formats"
       /\ IsBlock(e[8].block) /\ e[8].block.type = "renegotiation_info"
       /\ IsBlock(e[10].block) /\ e[10].block.type = "psk_key_exchange_modes"
  <2>. DEFINE one == Prefix(1, 1)
              zero == Prefix(0, 0)
  <2>4. /\ one \in LengthFields /\ Right(one) /\ one.holds <= 2
        /\ zero \in LengthFields /\ Right(zero) /\ zero.holds <= 1
    BY <1>3
  <2>5. /\ e[4].block = Block("ec_point_formats", <<one>>, 2)
        /\ e[8].block = Block("renegotiation_info", <<zero>>, 1)
        /\ e[10].block = Block("psk_key_exchange_modes", <<one>>, 2)
    BY <1>1
  <2>. HIDE DEF one, zero
  <2>1. /\ IsBlock(Block("ec_point_formats", <<one>>, 2))
        /\ Block("ec_point_formats", <<one>>, 2).type = "ec_point_formats"
    BY <2>4, BlockAround
  <2>2. /\ IsBlock(Block("renegotiation_info", <<zero>>, 1))
        /\ Block("renegotiation_info", <<zero>>, 1).type = "renegotiation_info"
    BY <2>4, BlockAround
  <2>3. /\ IsBlock(Block("psk_key_exchange_modes", <<one>>, 2))
        /\ Block("psk_key_exchange_modes", <<one>>, 2).type = "psk_key_exchange_modes"
    BY <2>4, BlockAround
  <2>. QED  BY <2>1, <2>2, <2>3, <2>5
<1>12. IsBlock(e[11].block) /\ e[11].block.type = "key_share"  BY <1>1, KeyShareRight
<1>13. \A i \in 1 .. 11 : i \in {1, 2, 3, 4, 5, 6, 7, 8, 9, 10, 11}  OBVIOUS
<1>14. \A i \in 1 .. 11 : IsBlock(e[i].block) /\ e[i].block.type = TypeNames[i]
  BY <1>8, <1>9, <1>10, <1>11, <1>12, <1>13 DEF TypeNames
<1>. QED  BY <1>1, <1>14, <1>15 DEF e

\* What a hello is given is blocks that are right, none of them padding, no type
\* twice, and a key share if it names versions.
LEMMA ExtensionsMarshalled ==
  ASSUME NEW asked, IsHello(asked), NEW m, m = MarshalExtensions(asked)
  PROVE  /\ Len(m) \in Nat /\ DOMAIN m = 1 .. Len(m) /\ m \in Seq(ToSet(m))
         /\ \A i \in DOMAIN m : IsBlock(m[i]) /\ m[i].type # "padding"
         /\ \A i, j \in DOMAIN m : m[i].type = m[j].type => i = j
         /\ \A i \in DOMAIN m :
              m[i].type = "supported_versions" => \E j \in DOMAIN m : m[j].type = "key_share"
<1>. DEFINE e == Extensions(asked)
            I == {i \in DOMAIN e : e[i].wanted}
            w == Extract(e, I)
            a == Ascending(I)
            n == Cardinality(I)
<1>1. /\ DOMAIN e = 1 .. 11
      /\ \A i \in 1 .. 11 : IsBlock(e[i].block) /\ e[i].block.type = TypeNames[i]
      /\ e[9].wanted => e[11].wanted
  BY ExtensionsRight
<1>2. I \in SUBSET (1 .. 11) /\ (9 \in I => 11 \in I)  BY <1>1
<1>3. m = [k \in DOMAIN w |-> w[k].block]  BY DEF MarshalExtensions
<1>4. w = [k \in 1 .. n |-> e[a[k]]]  BY DEF Extract
<1>. HIDE DEF e, I, w, a, n
<1>5. I \in SUBSET Int /\ IsFiniteSet(I)
  <2>. DEFINE last == 11
              S == 1 .. last
  <2>1. last \in Int /\ 1 \in Int /\ I \in SUBSET S /\ S \in SUBSET Int  BY <1>2
  <2>. HIDE DEF last
  <2>2. IsFiniteSet(S)  BY <2>1, FS_Interval
  <2>. HIDE DEF S
  <2>. QED  BY <2>1, <2>2, FS_Subset
<1>6. /\ n \in Nat /\ a \in [1 .. n -> I] /\ ToSet(a) = I
      /\ \A i, j \in 1 .. n : i < j => a[i] < a[j]
  BY <1>5, AscendingFacts DEF a, n
<1>7. m = [k \in 1 .. n |-> e[a[k]].block]  BY <1>3, <1>4
<1>8. Len(m) = n /\ DOMAIN m = 1 .. n /\ m \in Seq(ToSet(m))
  <2>1. \A k \in 1 .. n : e[a[k]].block \in ToSet(m)  BY <1>7 DEF ToSet
  <2>2. [k \in 1 .. n |-> e[a[k]].block] \in Seq(ToSet(m))  BY <1>6, <2>1, IsASeq
  <2>3. m \in Seq(ToSet(m)) /\ DOMAIN m = 1 .. n  BY <1>7, <2>2
  <2>. QED  BY <1>6, <2>3, LenProperties
<1>9. \A k \in 1 .. n : a[k] \in 1 .. 11 /\ IsBlock(m[k]) /\ m[k].type = TypeNames[a[k]]
  BY <1>1, <1>2, <1>6, <1>7
<1>10. /\ \A k, l \in 1 .. 11 : TypeNames[k] = TypeNames[l] => k = l
       /\ \A k \in 1 .. 11 : TypeNames[k] # "padding"
       /\ \A k \in 1 .. 11 : TypeNames[k] = "supported_versions" => k = 9
       /\ TypeNames[11] = "key_share"
  <2>1. \A k \in 1 .. 11 : k \in {1, 2, 3, 4, 5, 6, 7, 8, 9, 10, 11}  OBVIOUS
  <2>. QED  BY <2>1 DEF TypeNames
<1>11. ASSUME NEW i \in 1 .. n, NEW j \in 1 .. n, m[i].type = m[j].type PROVE i = j
  <2>1. a[i] = a[j]  BY <1>9, <1>10, <1>11
  <2>2. ~(i < j) /\ ~(j < i)
    <3>1. \A k \in 1 .. n : a[k] \in Int  BY <1>9
    <3>. QED  BY <1>6, <2>1, <3>1
  <2>. QED  BY <2>2
<1>12. ASSUME NEW i \in 1 .. n, m[i].type = "supported_versions"
       PROVE  \E j \in 1 .. n : m[j].type = "key_share"
  <2>1. a[i] = 9 /\ a[i] \in I  BY <1>6, <1>9, <1>10, <1>12
  <2>2. 11 \in ToSet(a) /\ DOMAIN a = 1 .. n  BY <1>2, <1>6, <2>1
  <2>3. PICK j \in 1 .. n : a[j] = 11  BY <2>2 DEF ToSet
  <2>. QED  BY <1>9, <1>10, <2>3
<1>13. \A i \in 1 .. n : IsBlock(m[i]) /\ m[i].type # "padding"  BY <1>9, <1>10
<1>14. \A i, j \in 1 .. n : m[i].type = m[j].type => i = j  BY <1>11
<1>15. \A i \in 1 .. n :
         m[i].type = "supported_versions" => \E j \in 1 .. n : m[j].type = "key_share"
  BY <1>12
<1>16. /\ \A i \in DOMAIN m : IsBlock(m[i]) /\ m[i].type # "padding"
       /\ \A i, j \in DOMAIN m : m[i].type = m[j].type => i = j
       /\ \A i \in DOMAIN m :
            m[i].type = "supported_versions" => \E j \in DOMAIN m : m[j].type = "key_share"
  BY <1>8, <1>13, <1>14, <1>15, Zenon
<1>17. Len(m) \in Nat /\ DOMAIN m = 1 .. Len(m) /\ m \in Seq(ToSet(m))
  BY <1>6, <1>8, Zenon
<1>. QED  BY <1>16, <1>17, Zenon

\* What some blocks add up to.
LEMMA BlocksSize ==
  ASSUME NEW n \in Nat, NEW blocks, DOMAIN blocks = 1 .. n, \A i \in 1 .. n : IsBlock(blocks[i])
  PROVE  SizeOf(blocks) \in Nat /\ \A i \in 1 .. n : blocks[i].bytes <= SizeOf(blocks)
<1>. DEFINE sizes == [i \in 1 .. n |-> blocks[i].bytes]
<1>1. SizeOf(blocks) = Total(sizes)  BY DEF SizeOf
<1>2. sizes \in [1 .. n -> Nat] /\ \A i \in 1 .. n : sizes[i] = blocks[i].bytes  BY DEF IsBlock
<1>. HIDE DEF sizes
<1>3. Total(sizes) \in Nat /\ \A i \in 1 .. n : sizes[i] <= Total(sizes)
  BY <1>2, UnitsFinite, TotalOver
<1>. QED  BY <1>1, <1>2, <1>3

LEMMA OneMoreBlock ==
  ASSUME NEW n \in Nat, NEW blocks, blocks \in Seq(ToSet(blocks)), Len(blocks) = n,
         \A i \in 1 .. n : IsBlock(blocks[i]), NEW block, IsBlock(block)
  PROVE  /\ DOMAIN (blocks \o <<block>>) = 1 .. n + 1 /\ (blocks \o <<block>>)[n + 1] = block
         /\ \A i \in 1 .. n : (blocks \o <<block>>)[i] = blocks[i]
         /\ SizeOf(blocks \o <<block>>) = SizeOf(blocks) + block.bytes
<1>. DEFINE T == ToSet(blocks) \cup {block}
            all == blocks \o <<block>>
<1>1. blocks \in Seq(T) /\ <<block>> \in Seq(T) /\ Len(<<block>>) = 1 /\ <<block>>[1] = block
  <2>1. \A i \in 1 .. Len(blocks) : blocks[i] \in T  BY LenProperties DEF ToSet
  <2>2. blocks = [i \in 1 .. Len(blocks) |-> blocks[i]] /\ Len(blocks) \in Nat  BY LenProperties
  <2>3. [i \in 1 .. Len(blocks) |-> blocks[i]] \in Seq(T)
    <3>. HIDE DEF T
    <3>. QED  BY <2>1, <2>2, IsASeq
  <2>4. blocks \in Seq(T)  BY <2>2, <2>3
  <2>5. block \in T  OBVIOUS
  <2>. HIDE DEF T
  <2>. QED  BY <2>4, <2>5
<1>. HIDE DEF T
<1>2. /\ all \in Seq(T) /\ Len(all) = n + 1
      /\ \A i \in 1 .. Len(all) : all[i] = IF i <= n THEN blocks[i] ELSE <<block>>[i - n]
  BY <1>1, ConcatProperties
<1>3. DOMAIN all = 1 .. n + 1  BY <1>2, LenProperties
<1>4. all[n + 1] = block /\ \A i \in 1 .. n : all[i] = blocks[i]
  <2>1. n + 1 \in 1 .. Len(all) /\ ~(n + 1 <= n) /\ (n + 1) - n = 1  BY <1>2
  <2>2. all[n + 1] = block  BY <1>1, <1>2, <2>1
  <2>. QED  BY <1>2, <2>2
<1>5. SizeOf(all) = SizeOf(blocks) + block.bytes
  <2>. DEFINE sizes == [i \in 1 .. n |-> blocks[i].bytes]
              more == [i \in 1 .. n + 1 |-> all[i].bytes]
  <2>1. DOMAIN blocks = 1 .. n  BY LenProperties
  <2>2. SizeOf(blocks) = Total(sizes) /\ SizeOf(all) = Total(more)  BY <1>3, <2>1 DEF SizeOf
  <2>3. /\ sizes \in [1 .. n -> Nat] /\ more \in [1 .. n + 1 -> Nat]
        /\ \A i \in 1 .. n : more[i] = sizes[i]
        /\ more[n + 1] = block.bytes
    <3>1. \A i \in 1 .. n + 1 : i \in 1 .. n \/ i = n + 1  OBVIOUS
    <3>. QED  BY <1>4, <3>1 DEF IsBlock
  <2>. HIDE DEF sizes, more
  <2>4. Total(more) = Total(sizes) + more[n + 1]  BY <2>3, TotalMore
  <2>. QED  BY <2>2, <2>3, <2>4
<1>. QED  BY <1>3, <1>4, <1>5

\* The extensions of a hello with its padding.
Blocks(asked) == MarshalExtensions(asked) \o Padding(asked, MarshalExtensions(asked))

\* With its padding, if it needs any, a hello is blocks that are right and of
\* types of their own, and its record is not of a size that middleboxes reject.
LEMMA HelloPadded ==
  ASSUME NEW asked, IsHello(asked), NEW all, all = Blocks(asked)
  PROVE  /\ \E n \in Nat : DOMAIN all = 1 .. n
         /\ \A i \in DOMAIN all : IsBlock(all[i])
         /\ \A i, j \in DOMAIN all : all[i].type = all[j].type => i = j
         /\ \A i \in DOMAIN all :
              all[i].type = "supported_versions" => \E j \in DOMAIN all : all[j].type = "key_share"
         /\ HeadSize(asked) \in Nat /\ SizeOf(all) \in Nat
         /\ RecordSize(BodySize(asked, all)) \notin 256 .. 511
<1>. DEFINE e == MarshalExtensions(asked)
            p == Padding(asked, e)
<1>0. all = e \o p  BY DEF Blocks
<1>. DEFINE n == Len(e)
            head == HeadSize(asked)
            size == SizeOf(e)
            total == head + 11 + size
<1>1. /\ n \in Nat /\ DOMAIN e = 1 .. n /\ e \in Seq(ToSet(e))
      /\ \A i \in 1 .. n : IsBlock(e[i]) /\ e[i].type # "padding"
      /\ \A i, j \in 1 .. n : e[i].type = e[j].type => i = j
      /\ \A i \in 1 .. n :
           e[i].type = "supported_versions" => \E j \in 1 .. n : e[j].type = "key_share"
  BY ExtensionsMarshalled
<1>2. head \in Nat /\ size \in Nat /\ total \in Nat
  <2>1. head \in Nat
    <3>. DEFINE s == asked.suites
                i == asked.sessionId
                c == asked.compression
    <3>1. s \in Nat /\ i \in Nat /\ c \in Nat  BY DEF IsHello
    <3>2. head = 2 + 32 + (1 + i) + (2 + 2 * s) + (1 + c)  BY DEF HeadSize
    <3>. HIDE DEF head, s, i, c
    <3>. QED  BY <3>1, <3>2
  <2>2. size \in Nat  BY <1>1, BlocksSize
  <2>. HIDE DEF head, size
  <2>. QED  BY <2>1, <2>2
<1>3. /\ RecordSize(BodySize(asked, e)) = total
      /\ SizeOf(all) \in Nat => RecordSize(BodySize(asked, all)) = head + 11 + SizeOf(all)
  <2>. DEFINE full == SizeOf(all)
  <2>1. RecordSize(BodySize(asked, e)) = ((head + 2 + size) + 4) + 5
    BY DEF BodySize, RecordSize
  <2>2. RecordSize(BodySize(asked, all)) = ((head + 2 + full) + 4) + 5
    BY DEF BodySize, RecordSize
  <2>3. ((head + 2 + size) + 4) + 5 = total
    <3>1. total = head + 11 + size  OBVIOUS
    <3>. HIDE DEF head, size, total
    <3>. QED  BY <1>2, <3>1
  <2>4. full \in Nat => ((head + 2 + full) + 4) + 5 = head + 11 + full
    <3>. HIDE DEF head, full
    <3>. QED  BY <1>2
  <2>. HIDE DEF head, size, total, full
  <2>. QED  BY <2>1, <2>2, <2>3, <2>4 DEF full
<1>4. p = IF 256 <= total /\ total < 512 THEN <<Block("padding", <<>>, 512 - total + 4)>> ELSE <<>>
  BY <1>3 DEF Padding, Include
<1>. HIDE DEF e, p, n, head, size, total
<1>5. CASE 256 <= total /\ total < 512
  <2>. DEFINE room == 512 - total + 4
              pad == Block("padding", <<>>, room)
  <2>1. room \in Nat  BY <1>2, <1>5
  <2>2. pad.bytes = 4 + room  BY DEF Block
  <2>3. all = e \o <<pad>>  BY <1>0, <1>4, <1>5
  <2>4. room = 516 - total  BY <1>2
  <2>. HIDE DEF room
  <2>5. IsBlock(pad) /\ pad.type = "padding"  BY <2>1, BlockAround
  <2>. HIDE DEF pad
  <2>6. /\ DOMAIN all = 1 .. n + 1 /\ all[n + 1] = pad
        /\ \A i \in 1 .. n : all[i] = e[i]
        /\ SizeOf(all) = size + pad.bytes
    <3>1. /\ DOMAIN all = 1 .. n + 1 /\ all[n + 1] = pad
          /\ \A i \in 1 .. n : all[i] = e[i]
          /\ SizeOf(all) = SizeOf(e) + pad.bytes
      <4>1. Len(e) = n  BY DEF n
      <4>2. \A i \in 1 .. n : IsBlock(e[i])  BY <1>1
      <4>3. n \in Nat /\ e \in Seq(ToSet(e)) /\ IsBlock(pad)  BY <1>1, <2>5
      <4>4. /\ DOMAIN (e \o <<pad>>) = 1 .. n + 1 /\ (e \o <<pad>>)[n + 1] = pad
            /\ \A i \in 1 .. n : (e \o <<pad>>)[i] = e[i]
            /\ SizeOf(e \o <<pad>>) = SizeOf(e) + pad.bytes
        BY <4>1, <4>2, <4>3, OneMoreBlock
      <4>. QED  BY <2>3, <4>4, Zenon
    <3>. QED  BY <3>1 DEF size
  <2>7. \A i \in 1 .. n + 1 : i \in 1 .. n \/ i = n + 1  BY <1>1
  <2>8. n + 1 \in Nat  BY <1>1
  <2>9. \A i \in 1 .. n + 1 : IsBlock(all[i])  BY <1>1, <2>5, <2>6, <2>7
  <2>10. \A i, j \in 1 .. n + 1 : all[i].type = all[j].type => i = j
    BY <1>1, <2>5, <2>6, <2>7
  <2>11. ASSUME NEW i \in 1 .. n + 1, all[i].type = "supported_versions"
         PROVE  \E j \in 1 .. n + 1 : all[j].type = "key_share"
    <3>1. i \in 1 .. n  BY <2>5, <2>6, <2>7, <2>11
    <3>2. PICK j \in 1 .. n : e[j].type = "key_share"  BY <1>1, <2>6, <2>11, <3>1
    <3>3. j \in 1 .. n + 1 /\ all[j] = e[j]  BY <1>1, <2>6
    <3>. QED  BY <3>2, <3>3
  <2>12. SizeOf(all) \in Nat /\ head + 11 + SizeOf(all) = total + 520 - total
    <3>1. size + head + 11 = total  BY <1>2 DEF total
    <3>2. SizeOf(all) = size + (4 + (516 - total))  BY <2>2, <2>4, <2>6
    <3>3. 4 + (516 - total) \in Nat  BY <1>2, <1>5
    <3>. QED  BY <1>2, <3>1, <3>2, <3>3
  <2>13. RecordSize(BodySize(asked, all)) \notin 256 .. 511
    <3>1. total + 520 - total = 520  BY <1>2
    <3>2. RecordSize(BodySize(asked, all)) = total + 520 - total  BY <1>3, <2>12, Zenon
    <3>3. RecordSize(BodySize(asked, all)) = 520  BY <3>1, <3>2
    <3>. QED  BY <3>3
  <2>14. DOMAIN all = 1 .. n + 1  BY <2>6
  <2>15. HeadSize(asked) \in Nat  BY <1>2 DEF head
  <2>16. SizeOf(all) \in Nat  BY <2>12
  <2>17. /\ \A i \in DOMAIN all : IsBlock(all[i])
         /\ \A i, j \in DOMAIN all : all[i].type = all[j].type => i = j
         /\ \A i \in DOMAIN all :
              all[i].type = "supported_versions" => \E j \in DOMAIN all : all[j].type = "key_share"
    <3>1. \A i \in DOMAIN all : IsBlock(all[i])  BY <2>9, <2>14
    <3>2. \A i, j \in DOMAIN all : all[i].type = all[j].type => i = j  BY <2>10, <2>14
    <3>3. ASSUME NEW i \in DOMAIN all, all[i].type = "supported_versions"
          PROVE  \E j \in DOMAIN all : all[j].type = "key_share"
      BY <2>11, <2>14, <3>3
    <3>. QED  BY <3>1, <3>2, <3>3
  <2>18. \E k \in Nat : DOMAIN all = 1 .. k  BY <2>8, <2>14
  <2>. QED  BY <2>13, <2>15, <2>16, <2>17, <2>18, Zenon
<1>6. CASE ~(256 <= total /\ total < 512)
  <2>1. all = e  BY <1>0, <1>1, <1>4, <1>6, ConcatEmptySeq
  <2>2. RecordSize(BodySize(asked, all)) \notin 256 .. 511  BY <1>2, <1>3, <1>6, <2>1
  <2>3. HeadSize(asked) \in Nat /\ SizeOf(all) \in Nat  BY <1>2, <2>1 DEF head, size
  <2>4. n \in Nat /\ DOMAIN all = 1 .. n  BY <1>1, <2>1
  <2>5. /\ \A i \in 1 .. n : IsBlock(all[i])
        /\ \A i, j \in 1 .. n : all[i].type = all[j].type => i = j
        /\ \A i \in 1 .. n :
             all[i].type = "supported_versions" => \E j \in 1 .. n : all[j].type = "key_share"
    <3>1. \A i \in 1 .. n : all[i] = e[i]  BY <2>1
    <3>. QED  BY <1>1, <2>1
  <2>6. /\ \A i \in DOMAIN all : IsBlock(all[i])
        /\ \A i, j \in DOMAIN all : all[i].type = all[j].type => i = j
        /\ \A i \in DOMAIN all :
             all[i].type = "supported_versions" => \E j \in DOMAIN all : all[j].type = "key_share"
    <3>1. \A i \in DOMAIN all : IsBlock(all[i])  BY <2>4, <2>5
    <3>2. \A i, j \in DOMAIN all : all[i].type = all[j].type => i = j  BY <2>4, <2>5
    <3>3. ASSUME NEW i \in DOMAIN all, all[i].type = "supported_versions"
          PROVE  \E j \in DOMAIN all : all[j].type = "key_share"
      BY <2>4, <2>5, <3>3
    <3>. QED  BY <3>1, <3>2, <3>3
  <2>7. \E k \in Nat : DOMAIN all = 1 .. k  BY <2>4
  <2>. QED  BY <2>2, <2>3, <2>6, <2>7, Zenon
<1>. QED  BY <1>5, <1>6

\* What Encode makes of a hello with these extensions and a body of this size.
IsMarshalled(asked, m, all, body) ==
  /\ m.bytes = RecordSize(body)
  /\ m.types = [i \in DOMAIN all |-> all[i].type]
  /\ m.lengths
       = <<Prefix(ToUint16(4 + body), 4 + body), Prefix(ToUint24(body), body)>>
         \o Lengths(asked, MarshalExtensions(asked), Padding(asked, MarshalExtensions(asked)))
         \o Gathered([i \in DOMAIN all |-> all[i].lengths])

\* A hello that marshals is one whose lengths its fields hold.
LEMMA EncodeIs ==
  ASSUME NEW asked, ~Encode(asked).error
  PROVE  /\ CheckLengths(asked)
         /\ IsMarshalled(asked, Encode(asked), Blocks(asked), BodySize(asked, Blocks(asked)))
<1>. DEFINE e == MarshalExtensions(asked)
            p == Padding(asked, e)
            all == Blocks(asked)
            body == BodySize(asked, all)
            T == [i \in DOMAIN all |-> all[i].type]
            L == <<Prefix(ToUint16(4 + body), 4 + body), Prefix(ToUint24(body), body)>>
                 \o Lengths(asked, e, p)
                 \o Gathered([i \in DOMAIN all |-> all[i].lengths])
            made == [error |-> FALSE, bytes |-> RecordSize(body), types |-> T, lengths |-> L]
<1>1. Encode(asked) = IF asked.suites = 0 \/ ~CheckLengths(asked) \/ body > 16777215
                         THEN [error |-> TRUE] ELSE made
  BY DEF Encode, Blocks
<1>. HIDE DEF T, L
<1>2. /\ made.bytes = RecordSize(body) /\ made.types = T /\ made.lengths = L
      /\ Encode(asked) = made /\ CheckLengths(asked)
  BY <1>1
<1>. HIDE DEF made, body, all
<1>3. IsMarshalled(asked, Encode(asked), all, body)  BY <1>2 DEF T, L, IsMarshalled
<1>. QED  BY <1>2, <1>3 DEF all, body

LEMMA FourSet ==
  ASSUME NEW T, NEW a \in T, NEW b \in T, NEW c \in T, NEW d \in T
  PROVE  <<a, b, c, d>> \in Seq(T) /\ ToSet(<<a, b, c, d>>) = {a, b, c, d}
<1>1. /\ <<a, b, c, d>> \in Seq(T) /\ DOMAIN <<a, b, c, d>> = {1, 2, 3, 4}
      /\ <<a, b, c, d>>[1] = a /\ <<a, b, c, d>>[2] = b
      /\ <<a, b, c, d>>[3] = c /\ <<a, b, c, d>>[4] = d
  OBVIOUS
<1>. QED  BY <1>1 DEF ToSet

\* Whatever the hello, one that marshals is not of a size that middleboxes reject,
\* and unless it is too long for the length of its record it says of itself what
\* is so.
LEMMA EncodedRight ==
  ASSUME NEW asked, IsHello(asked), NEW m, m = Encode(asked), ~m.error
  PROVE  /\ m.bytes \notin 256 .. 511
         /\ m.bytes - 5 <= 65535 =>
              \A i \in DOMAIN m.lengths : m.lengths[i].says = m.lengths[i].holds
         /\ IsInjective(m.types)
         /\ "supported_versions" \in ToSet(m.types) => "key_share" \in ToSet(m.types)
<1>. DEFINE e == MarshalExtensions(asked)
            p == Padding(asked, e)
            all == Blocks(asked)
            body == BodySize(asked, all)
            full == SizeOf(all)
            head == HeadSize(asked)
            rows == [i \in DOMAIN all |-> all[i].lengths]
            outer == <<Prefix(ToUint16(4 + body), 4 + body), Prefix(ToUint24(body), body)>>
            own == Lengths(asked, e, p)
<1>1. /\ \E n \in Nat : DOMAIN all = 1 .. n
      /\ \A i \in DOMAIN all : IsBlock(all[i])
      /\ \A i, j \in DOMAIN all : all[i].type = all[j].type => i = j
      /\ \A i \in DOMAIN all :
           all[i].type = "supported_versions" => \E j \in DOMAIN all : all[j].type = "key_share"
      /\ head \in Nat /\ full \in Nat
      /\ RecordSize(body) \notin 256 .. 511
  BY HelloPadded
<1>2. /\ CheckLengths(asked)
      /\ m.bytes = RecordSize(body)
      /\ m.types = [i \in DOMAIN all |-> all[i].type]
      /\ m.lengths = (outer \o own) \o Gathered(rows)
  <2>1. CheckLengths(asked) /\ IsMarshalled(asked, m, all, body)  BY EncodeIs
  <2>2. /\ outer = <<Prefix(ToUint16(4 + body), 4 + body), Prefix(ToUint24(body), body)>>
        /\ own = Lengths(asked, MarshalExtensions(asked), Padding(asked, MarshalExtensions(asked)))
        /\ rows = [i \in DOMAIN all |-> all[i].lengths]
    OBVIOUS
  <2>. HIDE DEF all, body, outer, own, rows
  <2>3. m.lengths = (outer \o own) \o Gathered(rows)  BY <2>1, <2>2, Zenon DEF IsMarshalled
  <2>. QED  BY <2>1, <2>3 DEF IsMarshalled
<1>3. body = head + 2 + full /\ RecordSize(body) = body + 4 + 5  BY DEF BodySize, RecordSize
<1>0. e \o p = all  BY DEF Blocks
<1>4. /\ own = <<Prefix(ToByte(asked.sessionId), asked.sessionId),
                 Prefix(ToUint16(2 * asked.suites), 2 * asked.suites),
                 Prefix(ToByte(asked.compression), asked.compression),
                 Prefix(ToUint16(full), full)>>
  BY <1>0 DEF Lengths
<1>. HIDE DEF all
<1>5. PICK n \in Nat : DOMAIN all = 1 .. n  BY <1>1
<1>6. DOMAIN rows = 1 .. n /\ \A i \in 1 .. n : rows[i] = all[i].lengths  BY <1>5
<1>. HIDE DEF e, p, all, body, full, head, rows, outer, own
<1>11. DOMAIN m.types = DOMAIN all /\ \A i \in DOMAIN all : m.types[i] = all[i].type  BY <1>2
<1>12. RecordSize(body) \notin 256 .. 511  BY <1>1
<1>13. \A i, j \in DOMAIN all : all[i].type = all[j].type => i = j  BY <1>1
<1>14. \A i \in DOMAIN all :
        all[i].type = "supported_versions" => \E j \in DOMAIN all : all[j].type = "key_share"
  BY <1>1
<1>15. \A i \in DOMAIN all : IsBlock(all[i])  BY <1>1
<1>16. head \in Nat /\ full \in Nat  BY <1>1
<1>7. IsInjective(m.types)  BY <1>11, <1>13 DEF IsInjective
<1>8. "supported_versions" \in ToSet(m.types) => "key_share" \in ToSet(m.types)
  <2>1. ASSUME "supported_versions" \in ToSet(m.types) PROVE "key_share" \in ToSet(m.types)
    <3>1. PICK i \in DOMAIN m.types : m.types[i] = "supported_versions"  BY <2>1 DEF ToSet
    <3>2. PICK j \in DOMAIN all : all[j].type = "key_share"  BY <1>11, <1>14, <3>1
    <3>. QED  BY <1>11, <3>2 DEF ToSet
  <2>. QED  BY <2>1
<1>9. ASSUME m.bytes - 5 <= 65535
      PROVE  \A i \in DOMAIN m.lengths : m.lengths[i].says = m.lengths[i].holds
  <2>1. body \in Nat /\ body + 4 <= 65535 /\ full <= 65535 /\ body <= 65535 /\ full <= body
    <3>1. m.bytes = body + 4 + 5  BY <1>2, <1>3
    <3>. QED  BY <1>16, <1>3, <1>9, <3>1
  <2>2. outer \in Seq(LengthFields) /\ \A q \in ToSet(outer) : q.says = q.holds
    <3>. DEFINE a == Prefix(ToUint16(4 + body), 4 + body)
                b == Prefix(ToUint24(body), body)
    <3>1. ToUint24(body) = body
      <4>1. \A k \in Nat : k <= 65535 => k % 16777216 = k  OBVIOUS
      <4>. QED  BY <2>1, <4>1 DEF ToUint24
    <3>2. ToUint16(4 + body) = 4 + body  BY <2>1 DEF ToUint16
    <3>3. a \in LengthFields /\ b \in LengthFields /\ a.says = a.holds /\ b.says = b.holds
      BY <2>1, <3>1, <3>2 DEF Prefix, LengthFields
    <3>4. outer = <<a, b>>  BY DEF outer
    <3>. HIDE DEF a, b
    <3>. QED  BY <3>3, <3>4, Within
  <2>3. own \in Seq(LengthFields) /\ \A q \in ToSet(own) : q.says = q.holds
    <3>. DEFINE i == asked.sessionId
                s == 2 * asked.suites
                c == asked.compression
                a == Prefix(ToByte(i), i)
                b == Prefix(ToUint16(s), s)
                d == Prefix(ToByte(c), c)
                f == Prefix(ToUint16(full), full)
    <3>1. i \in Nat /\ i <= 255 /\ s \in Nat /\ s <= 65535 /\ c \in Nat /\ c <= 255
      <4>1. asked.suites \in Nat /\ asked.suites <= 32767  BY <1>2 DEF IsHello, CheckLengths
      <4>. QED  BY <1>2, <4>1 DEF IsHello, CheckLengths
    <3>2. own = <<a, b, d, f>>  BY <1>4
    <3>. HIDE DEF i, s, c
    <3>3. /\ a \in LengthFields /\ a.says = a.holds /\ b \in LengthFields /\ b.says = b.holds
          /\ d \in LengthFields /\ d.says = d.holds /\ f \in LengthFields /\ f.says = f.holds
      BY <1>16, <2>1, <3>1 DEF Prefix, ToByte, ToUint16, LengthFields
    <3>. HIDE DEF a, b, d, f
    <3>4. own \in Seq(LengthFields) /\ ToSet(own) = {a, b, d, f}  BY <3>2, <3>3, FourSet
    <3>. QED  BY <3>3, <3>4
  <2>4. /\ Gathered(rows) \in Seq(LengthFields)
        /\ \A q \in ToSet(Gathered(rows)) : q.says = q.holds
    <3>1. \A i \in 1 .. n : rows[i] \in Seq(LengthFields)  BY <1>15, <1>5, <1>6 DEF IsBlock
    <3>2. /\ Gathered(rows) \in Seq(LengthFields)
          /\ ToSet(Gathered(rows)) = UNION {ToSet(rows[i]) : i \in 1 .. n}
      BY <1>6, <3>1, GatheredFacts
    <3>3. \A i \in 1 .. n : all[i].bytes \in Nat /\ all[i].bytes <= full
      <4>1. \A i \in 1 .. n : IsBlock(all[i])  BY <1>15, <1>5
      <4>2. \A i \in 1 .. n : all[i].bytes <= SizeOf(all)  BY <1>5, <4>1, BlocksSize
      <4>. QED  BY <4>1, <4>2 DEF IsBlock, full
    <3>4. ASSUME NEW i \in 1 .. n, NEW q \in ToSet(rows[i]) PROVE q.says = q.holds
      <4>1. Right(q) /\ q.holds <= all[i].bytes  BY <1>15, <1>5, <1>6 DEF IsBlock
      <4>2. q.holds \in Nat
        <5>1. q \in LengthFields  BY <3>1, LenProperties, ElementOfSeq DEF ToSet
        <5>. QED  BY <5>1 DEF LengthFields
      <4>3. q.holds <= 65535
        <5>1. all[i].bytes \in Nat /\ all[i].bytes <= full  BY <3>3
        <5>2. q.holds <= all[i].bytes /\ full <= 65535  BY <2>1, <4>1
        <5>. QED  BY <1>16, <4>2, <5>1, <5>2
      <4>. QED  BY <4>1, <4>3 DEF Right
    <3>. QED  BY <3>2, <3>4
  <2>5. outer \o own \in Seq(LengthFields) /\ ToSet(outer \o own) = ToSet(outer) \cup ToSet(own)
    BY <2>2, <2>3, ConcatSet
  <2>. DEFINE first == outer \o own
              rest == Gathered(rows)
  <2>6. first \in Seq(LengthFields) /\ rest \in Seq(LengthFields)  BY <2>4, <2>5
  <2>7. \A q \in ToSet(first) \cup ToSet(rest) : q.says = q.holds  BY <2>2, <2>3, <2>4, <2>5
  <2>8. m.lengths = first \o rest  BY <1>2
  <2>. HIDE DEF first, rest
  <2>9. ToSet(first \o rest) = ToSet(first) \cup ToSet(rest) /\ first \o rest \in Seq(LengthFields)
    BY <2>6, ConcatSet
  <2>10. \A i \in DOMAIN m.lengths : m.lengths[i] \in ToSet(m.lengths)  BY DEF ToSet
  <2>. QED  BY <2>7, <2>8, <2>9, <2>10
<1>10. m.bytes \notin 256 .. 511  BY <1>2, <1>12
<1>. QED  BY <1>7, <1>8, <1>9, <1>10

-----------------------------------------------------------------------------
(***************************************************************************)
(* The theorems about the hello of a handshake.                            *)
(***************************************************************************)

\* What is marshalled is a hello that may be sent.
HelloInvariant ==
  /\ stage = "hello" => hello \in Hellos
  /\ record = None \/ \E h \in Hellos : record = Marshal(h)

\* Nothing but MarshalHello builds a record, and from the hello it was given.
LEMMA HelloInvariantHolds == HandshakeSpec => []HelloInvariant
<1>1. HandshakeInit \/ (SessionInit /\ hello = None /\ record = None) => HelloInvariant
  BY DEF HandshakeInit, SessionInit, HelloInvariant
<1>2. HelloInvariant /\ [HandshakeNext]_<<allVars, helloVars>> => HelloInvariant'
  <2>. SUFFICES ASSUME HelloInvariant, [HandshakeNext]_<<allVars, helloVars>>
                PROVE  HelloInvariant'
    OBVIOUS
  <2>1. CASE MarshalHello  BY <2>1 DEF MarshalHello, HelloInvariant
  <2>2. CASE HandshakeFails  BY <2>2 DEF HandshakeFails, HelloInvariant
  <2>3. CASE WriteHello  BY <2>3 DEF WriteHello, HelloInvariant
  <2>4. CASE ConnectionNext /\ UNCHANGED helloVars
    <3>1. stage' # "hello" \/ stage' = stage
      BY <2>4 DEF ConnectionNext, OlderVersion, WriteRequest, WriteFails, DrainChunk, DrainEnds,
                  Examine, Examined, allVars, earlyVars
    <3>. QED  BY <2>4, <3>1 DEF HelloInvariant, helloVars
  <2>5. CASE UNCHANGED <<allVars, helloVars>>
    BY <2>5 DEF HelloInvariant, allVars, earlyVars, helloVars
  <2>. QED  BY <2>1, <2>2, <2>3, <2>4, <2>5 DEF HandshakeNext
<1>. QED  BY <1>1, <1>2, PTL DEF HandshakeSpec

\* A record that Marshal built is right in what it says and of a size that is
\* let through.
LEMMA RecordRight == HelloInvariant => HelloReadsBack /\ PastMiddleboxes
<1>. SUFFICES ASSUME HelloInvariant, Marshalled PROVE HelloReadsBack /\ PastMiddleboxes
  BY DEF HelloReadsBack, PastMiddleboxes
<1>1. PICK h \in Hellos : record = Marshal(h)  BY DEF HelloInvariant, Marshalled
<1>2. IsHello(Completed(h))  BY HellosAssumption DEF IsHello, Completed
<1>3. record = Encode(Completed(h)) /\ ~record.error  BY <1>1 DEF Marshal, Marshalled
<1>. QED  BY <1>2, <1>3, EncodedRight DEF HelloReadsBack, PastMiddleboxes

\* Marshal (client_hello.go:108-111, 170-191, 364-368): whatever its lists, its
\* server name and its group add up to, a hello that is not longer than the
\* length of its record can say has every length right, no extension twice, and a
\* key share if it names its versions.
THEOREM HelloReadsBackHolds == HandshakeSpec => []HelloReadsBack
BY HelloInvariantHolds, RecordRight, PTL

\* Marshal (client_hello.go:138-143): no hello at all is sent in a record of 256
\* to 511 bytes.
THEOREM PastMiddleboxesHolds == HandshakeSpec => []PastMiddleboxes
BY HelloInvariantHolds, RecordRight, PTL

-----------------------------------------------------------------------------
(***************************************************************************)
(* What comes first: of what is arranged, picked out or gathered.          *)
(***************************************************************************)
\* s is what t begins with.
Begins(s, t) ==
  \E m, n \in Nat : /\ m <= n /\ DOMAIN s = 1 .. m /\ DOMAIN t = 1 .. n
                    /\ \A i \in 1 .. m : s[i] = t[i]

\* The members of T, which one key puts in the order that another puts them in,
\* come before all others of S.
Ahead(T, other, S, key) ==
  /\ IsFiniteSet(S) /\ key \in [S -> Int] /\ \A x, y \in S : key[x] = key[y] => x = y
  /\ T \subseteq S /\ other \in [T -> Int]
  /\ \A x, y \in T : other[x] < other[y] <=> key[x] < key[y]
  /\ \A x \in T : \A y \in S \ T : key[x] < key[y]

\* The members that come before all others are listed first, in the same order.
LEMMA ArrangedFirst ==
  ASSUME NEW S, NEW key, NEW T, NEW other, Ahead(T, other, S, key)
  PROVE  /\ Cardinality(T) \in Nat /\ Cardinality(S) \in Nat /\ Cardinality(T) <= Cardinality(S)
         /\ \A k \in 1 .. Cardinality(T) : Arranged(T, other)[k] = Arranged(S, key)[k]
<1>. DEFINE m == Cardinality(T)
            n == Cardinality(S)
            place == PlaceOf(S, key)
            spot == PlaceOf(T, other)
            a == Arranged(S, key)
            b == Arranged(T, other)
<1>0. /\ IsFiniteSet(S) /\ key \in [S -> Int] /\ \A x, y \in S : key[x] = key[y] => x = y
      /\ T \subseteq S /\ other \in [T -> Int]
      /\ \A x, y \in T : other[x] < other[y] <=> key[x] < key[y]
      /\ \A x \in T : \A y \in S \ T : key[x] < key[y]
  BY DEF Ahead
<1>1. IsFiniteSet(T) /\ m \in Nat /\ n \in Nat /\ m <= n  BY <1>0, FS_Subset, FS_CardinalityType
<1>2. /\ place \in [S -> 1 .. n]
      /\ \A x, y \in S : place[x] < place[y] <=> key[x] < key[y]
  BY <1>0, PlacesTaken
<1>3. ASSUME NEW x \in T, NEW y \in T, other[x] = other[y] PROVE x = y
  <2>1. ~(other[x] < other[y]) /\ ~(other[y] < other[x])  BY <1>0, <1>3
  <2>2. ~(key[x] < key[y]) /\ ~(key[y] < key[x])  BY <1>0, <2>1
  <2>3. key[x] \in Int /\ key[y] \in Int /\ x \in S /\ y \in S  BY <1>0
  <2>. QED  BY <1>0, <2>2, <2>3
<1>4. \A k \in 1 .. m : \E x \in T : spot[x] = k  BY <1>0, <1>1, <1>3, PlacesTaken
<1>5. ASSUME NEW x \in T PROVE spot[x] = place[x]
  <2>1. ASSUME NEW y \in S, key[y] < key[x] PROVE y \in T
    <3>1. ~(key[x] < key[y])
      <4>1. key[x] \in Int /\ key[y] \in Int  BY <1>0
      <4>. QED  BY <2>1, <4>1
    <3>. QED  BY <1>0, <3>1
  <2>2. Before(T, other, x) = Before(S, key, x)  BY <1>0, <2>1 DEF Before
  <2>. QED  BY <1>0, <2>2 DEF PlaceOf
<1>6. /\ a = [k \in 1 .. n |-> CHOOSE x \in S : place[x] = k]
      /\ b = [k \in 1 .. m |-> CHOOSE x \in T : spot[x] = k]
  BY DEF Arranged, PlaceOf, Before
<1>. HIDE DEF place, spot, n, m, a, b
<1>7. ASSUME NEW k \in 1 .. m PROVE b[k] = a[k]
  <2>. DEFINE x == CHOOSE y \in T : spot[y] = k
              z == CHOOSE y \in S : place[y] = k
  <2>1. x \in T /\ spot[x] = k  BY <1>4
  <2>2. x \in S /\ place[x] = k  BY <1>0, <1>5, <2>1
  <2>3. z \in S /\ place[z] = k  BY <2>2
  <2>4. b[k] = x /\ a[k] = z  BY <1>1, <1>6
  <2>. HIDE DEF x, z
  <2>5. ~(key[x] < key[z]) /\ ~(key[z] < key[x])
    <3>1. ~(k < k)  BY <1>1
    <3>. QED  BY <1>2, <2>2, <2>3, <3>1
  <2>6. key[x] \in Int /\ key[z] \in Int  BY <1>0, <2>2, <2>3
  <2>7. key[x] = key[z]  BY <2>5, <2>6
  <2>. QED  BY <1>0, <2>2, <2>3, <2>4, <2>7
<1>. QED  BY <1>1, <1>7 DEF a, b, m, n

\* What is picked out of a beginning is the beginning of what is picked out.
LEMMA ExtractBegins ==
  ASSUME NEW s, NEW t, Begins(s, t), NEW I, NEW J, J \subseteq DOMAIN t, I = J \cap DOMAIN s
  PROVE  Begins(Extract(s, I), Extract(t, J))
<1>1. PICK m, n \in Nat : /\ m <= n /\ DOMAIN s = 1 .. m /\ DOMAIN t = 1 .. n
                          /\ \A i \in 1 .. m : s[i] = t[i]
  BY DEF Begins
<1>. DEFINE key == [x \in J |-> x]
            other == [x \in I |-> x]
<1>2. IsFiniteSet(J) /\ J \subseteq Int /\ I \subseteq J
  <2>1. IsFiniteSet(1 .. n)  BY FS_Interval
  <2>. QED  BY <1>1, <2>1, FS_Subset
<1>3. /\ key \in [J -> Int] /\ other \in [I -> Int]
      /\ \A x, y \in J : key[x] = key[y] => x = y
      /\ \A x, y \in I : other[x] < other[y] <=> key[x] < key[y]
  BY <1>2
<1>4. \A x \in I : \A y \in J \ I : key[x] < key[y]
  <2>. SUFFICES ASSUME NEW x \in I, NEW y \in J \ I PROVE x < y  BY <1>2
  <2>1. x \in 1 .. m /\ y \in 1 .. n /\ y \notin 1 .. m  BY <1>1
  <2>. QED  BY <2>1
<1>5. Ascending(J) = Arranged(J, key) /\ Ascending(I) = Arranged(I, other)  BY DEF Ascending
<1>. HIDE DEF key, other
<1>6. /\ Cardinality(I) \in Nat /\ Cardinality(J) \in Nat /\ Cardinality(I) <= Cardinality(J)
      /\ \A k \in 1 .. Cardinality(I) : Arranged(I, other)[k] = Arranged(J, key)[k]
  <2>1. Ahead(I, other, J, key)  BY <1>2, <1>3, <1>4 DEF Ahead
  <2>. QED  BY <2>1, ArrangedFirst
<1>7. Ascending(I) \in [1 .. Cardinality(I) -> I]
  <2>1. I \in SUBSET Int /\ IsFiniteSet(I)  BY <1>2, FS_Subset
  <2>. QED  BY <2>1, AscendingFacts
<1>8. /\ DOMAIN Extract(s, I) = 1 .. Cardinality(I) /\ DOMAIN Extract(t, J) = 1 .. Cardinality(J)
      /\ \A k \in 1 .. Cardinality(I) : Extract(s, I)[k] = s[Ascending(I)[k]]
      /\ \A k \in 1 .. Cardinality(J) : Extract(t, J)[k] = t[Ascending(J)[k]]
  BY DEF Extract
<1>9. ASSUME NEW k \in 1 .. Cardinality(I) PROVE Extract(s, I)[k] = Extract(t, J)[k]
  <2>. DEFINE i == Ascending(I)[k]
  <2>1. i = Ascending(J)[k] /\ k \in 1 .. Cardinality(J)  BY <1>5, <1>6
  <2>2. i \in 1 .. m  BY <1>1, <1>7
  <2>3. Extract(s, I)[k] = s[i] /\ Extract(t, J)[k] = t[i]  BY <1>8, <2>1
  <2>. HIDE DEF i
  <2>. QED  BY <1>1, <2>2, <2>3
<1>. QED  BY <1>6, <1>8, <1>9 DEF Begins

\* What is gathered from the first of some sequences is what is gathered first,
\* and all of it if the others are empty.
LEMMA GatheredBegins ==
  ASSUME NEW m \in Nat, NEW n \in Nat, m <= n, NEW first, DOMAIN first = 1 .. m,
         NEW lists, DOMAIN lists = 1 .. n, \A i \in 1 .. m : first[i] = lists[i],
         \A i \in 1 .. n : \E k \in Nat : DOMAIN lists[i] = 1 .. k
  PROVE  /\ Begins(Gathered(first), Gathered(lists))
         /\ (\A i \in 1 .. n : i > m => DOMAIN lists[i] = {}) => Gathered(first) = Gathered(lists)
<1>. DEFINE S == Cells(lists)
            T == Cells(first)
            key == Rowwise(S)
            other == Rowwise(T)
<1>1. \A i \in 1 .. m : i \in 1 .. n  OBVIOUS
<1>2. /\ IsFiniteSet(S) /\ \A c \in S : c[1] \in 1 .. n /\ c[2] \in Nat /\ c = <<c[1], c[2]>>
      /\ key \in [S -> Int]
      /\ \A c, d \in S : key[c] < key[d] <=> c[1] < d[1] \/ (c[1] = d[1] /\ c[2] < d[2])
  BY CellsKeyed
<1>3. /\ IsFiniteSet(T) /\ \A c \in T : c[1] \in 1 .. m /\ c[2] \in Nat /\ c = <<c[1], c[2]>>
      /\ other \in [T -> Int]
      /\ \A c, d \in T : other[c] < other[d] <=> c[1] < d[1] \/ (c[1] = d[1] /\ c[2] < d[2])
  <2>1. \A i \in 1 .. m : \E k \in Nat : DOMAIN first[i] = 1 .. k  BY <1>1
  <2>. QED  BY <2>1, CellsKeyed
<1>4. T \subseteq S  BY <1>1 DEF Cells
<1>5. ASSUME NEW c \in S, c \notin T
      PROVE  c[1] > m /\ c[1] \in 1 .. n /\ DOMAIN lists[c[1]] # {}
  BY <1>5, <1>1 DEF Cells
<1>6. RowByRow(S) = Arranged(S, key) /\ RowByRow(T) = Arranged(T, other)  BY DEF RowByRow, Rowwise
<1>7. /\ Gathered(lists) = [k \in 1 .. Cardinality(S) |-> lists[RowByRow(S)[k][1]][RowByRow(S)[k][2]]]
      /\ Gathered(first) = [k \in 1 .. Cardinality(T) |-> first[RowByRow(T)[k][1]][RowByRow(T)[k][2]]]
  BY DEF Gathered
<1>. HIDE DEF S, T, key, other
<1>8. \A c, d \in S : key[c] = key[d] => c = d
  <2>. SUFFICES ASSUME NEW c \in S, NEW d \in S, key[c] = key[d] PROVE c = d  OBVIOUS
  <2>1. ~(key[c] < key[d]) /\ ~(key[d] < key[c])  BY <1>2
  <2>. QED  BY <1>2, <2>1
<1>9. \A c, d \in T : other[c] < other[d] <=> key[c] < key[d]  BY <1>2, <1>3, <1>4
<1>10. \A c \in T : \A d \in S \ T : key[c] < key[d]
  <2>. SUFFICES ASSUME NEW c \in T, NEW d \in S \ T PROVE key[c] < key[d]  OBVIOUS
  <2>1. c[1] \in 1 .. m /\ d[1] > m /\ d[1] \in 1 .. n  BY <1>3, <1>5
  <2>2. c[1] < d[1]  BY <2>1
  <2>. QED  BY <1>2, <1>4, <2>2
<1>11. /\ Cardinality(T) \in Nat /\ Cardinality(S) \in Nat /\ Cardinality(T) <= Cardinality(S)
       /\ \A k \in 1 .. Cardinality(T) : Arranged(T, other)[k] = Arranged(S, key)[k]
  <2>1. IsFiniteSet(S) /\ key \in [S -> Int] /\ \A c, d \in S : key[c] = key[d] => c = d
    BY <1>2, <1>8
  <2>2. T \in SUBSET S /\ other \in [T -> Int]  BY <1>3, <1>4
  <2>3. Ahead(T, other, S, key)  BY <2>1, <2>2, <1>9, <1>10 DEF Ahead
  <2>. QED  BY <2>3, ArrangedFirst
<1>12. RowByRow(T) \in [1 .. Cardinality(T) -> T]
  <2>1. \A c, d \in T : other[c] = other[d] => c = d
    <3>. SUFFICES ASSUME NEW c \in T, NEW d \in T, other[c] = other[d] PROVE c = d  OBVIOUS
    <3>1. ~(other[c] < other[d]) /\ ~(other[d] < other[c])  BY <1>3
    <3>. QED  BY <1>3, <3>1
  <2>. QED  BY <1>3, <1>6, <2>1, ArrangedFacts
<1>13. ASSUME NEW k \in 1 .. Cardinality(T) PROVE Gathered(first)[k] = Gathered(lists)[k]
  <2>. DEFINE c == RowByRow(T)[k]
  <2>1. c = RowByRow(S)[k] /\ k \in 1 .. Cardinality(S)  BY <1>6, <1>11
  <2>2. c \in T  BY <1>12
  <2>3. c[1] \in 1 .. m  BY <1>3, <2>2
  <2>4. Gathered(first)[k] = first[c[1]][c[2]]  BY <1>7
  <2>5. Gathered(lists)[k] = lists[c[1]][c[2]]  BY <1>7, <2>1
  <2>. QED  BY <2>3, <2>4, <2>5
<1>14. /\ DOMAIN Gathered(first) = 1 .. Cardinality(T)
       /\ DOMAIN Gathered(lists) = 1 .. Cardinality(S)
  BY <1>7
<1>15. Begins(Gathered(first), Gathered(lists))  BY <1>11, <1>13, <1>14 DEF Begins
<1>16. ASSUME \A i \in 1 .. n : i > m => DOMAIN lists[i] = {}
       PROVE  Gathered(first) = Gathered(lists)
  <2>1. S = T  BY <1>4, <1>5, <1>16
  <2>2. \A k \in 1 .. Cardinality(T) : Gathered(first)[k] = Gathered(lists)[k]  BY <1>13
  <2>. QED  BY <1>7, <2>1, <2>2
<1>. QED  BY <1>15, <1>16

-----------------------------------------------------------------------------
(***************************************************************************)
(* The flight: what its first records say.                                 *)
(***************************************************************************)
\* The payloads of the handshake records, and nothing of the others.
Payloads(records) ==
  [i \in DOMAIN records |-> IF records[i].type = "handshake" THEN records[i].pieces ELSE <<>>]

LEMMA PayloadsSeqs ==
  ASSUME NEW s, IsStream(s)
  PROVE  /\ Len(s) \in Nat /\ DOMAIN s = 1 .. Len(s) /\ DOMAIN Payloads(s) = 1 .. Len(s)
         /\ \A i \in 1 .. Len(s) : \E k \in Nat : DOMAIN Payloads(s)[i] = 1 .. k
         /\ HandshakePieces(s) = Gathered(Payloads(s))
<1>1. Len(s) \in Nat /\ DOMAIN s = 1 .. Len(s)  BY LenProperties DEF IsStream
<1>2. DOMAIN Payloads(s) = 1 .. Len(s)  BY <1>1 DEF Payloads
<1>3. ASSUME NEW i \in 1 .. Len(s) PROVE \E k \in Nat : DOMAIN Payloads(s)[i] = 1 .. k
  <2>1. CASE s[i].type = "handshake"
    <3>1. Payloads(s)[i] = s[i].pieces  BY <1>1, <2>1 DEF Payloads
    <3>2. s[i].pieces \in Seq(ToSet(s[i].pieces))  BY <1>1 DEF IsStream
    <3>. QED  BY <3>1, <3>2, LenProperties
  <2>2. CASE s[i].type # "handshake"
    <3>1. Payloads(s)[i] = <<>>  BY <1>1, <2>2 DEF Payloads
    <3>2. DOMAIN <<>> = 1 .. 0  OBVIOUS
    <3>. QED  BY <3>1, <3>2
  <2>. QED  BY <2>1, <2>2
<1>4. HandshakePieces(s) = Gathered(Payloads(s))  BY DEF HandshakePieces, Payloads
<1>. QED  BY <1>1, <1>2, <1>3, <1>4

\* The messages of the first records are the first messages, and all of them if
\* no other record is of the handshake.
LEMMA MessagesBegin ==
  ASSUME NEW p, NEW s, IsStream(s), Begins(p, s)
  PROVE  /\ Begins(Messages(p), Messages(s))
         /\ (\A i \in DOMAIN s : s[i].type = "handshake" => i \in DOMAIN p)
              => Messages(p) = Messages(s)
<1>. DEFINE n == Len(s)
            lists == Payloads(s)
            first == Payloads(p)
<1>1. /\ n \in Nat /\ DOMAIN s = 1 .. n /\ DOMAIN lists = 1 .. n
      /\ \A i \in 1 .. n : \E k \in Nat : DOMAIN lists[i] = 1 .. k
      /\ HandshakePieces(s) = Gathered(lists)
  BY PayloadsSeqs
<1>2. PICK m \in Nat : m <= n /\ DOMAIN p = 1 .. m /\ \A i \in 1 .. m : p[i] = s[i]
  <2>1. PICK m \in Nat, k \in Nat : /\ m <= k /\ DOMAIN p = 1 .. m /\ DOMAIN s = 1 .. k
                                   /\ \A i \in 1 .. m : p[i] = s[i]
    BY DEF Begins
  <2>2. m <= n
    <3>1. m = 0 \/ m \in 1 .. n  BY <1>1, <2>1
    <3>. HIDE DEF n
    <3>. QED  BY <1>1, <3>1
  <2>. QED  BY <2>1, <2>2
<1>3. HandshakePieces(p) = Gathered(first)  BY DEF HandshakePieces, Payloads
<1>4. DOMAIN first = 1 .. m  BY <1>2 DEF Payloads
<1>5. \A i \in 1 .. m : first[i] = lists[i]
  <2>1. \A i \in 1 .. m : i \in 1 .. n  BY <1>1, <1>2
  <2>. QED  BY <1>1, <1>2, <2>1 DEF Payloads
<1>6. ASSUME \A i \in DOMAIN s : s[i].type = "handshake" => i \in DOMAIN p
      PROVE  \A i \in 1 .. n : i > m => DOMAIN lists[i] = {}
  <2>. SUFFICES ASSUME NEW i \in 1 .. n, i > m PROVE DOMAIN lists[i] = {}  OBVIOUS
  <2>1. s[i].type # "handshake"  BY <1>1, <1>2, <1>6
  <2>2. lists[i] = <<>>  BY <1>1, <2>1 DEF Payloads
  <2>. QED  BY <2>2
<1>. HIDE DEF n, lists, first
<1>7. /\ Begins(Gathered(first), Gathered(lists))
      /\ (\A i \in 1 .. n : i > m => DOMAIN lists[i] = {}) => Gathered(first) = Gathered(lists)
  <2>1. m \in Nat /\ n \in Nat /\ m <= n /\ DOMAIN first = 1 .. m /\ DOMAIN lists = 1 .. n
    BY <1>1, <1>2, <1>4
  <2>2. \A i \in 1 .. n : \E k \in Nat : DOMAIN lists[i] = 1 .. k  BY <1>1
  <2>. QED  BY <1>5, <2>1, <2>2, GatheredBegins
<1>. DEFINE f == Gathered(first)
            a == Gathered(lists)
            I == {i \in DOMAIN f : f[i].last}
            J == {i \in DOMAIN a : a[i].last}
<1>8. Begins(Extract(f, I), Extract(a, J))
  <2>1. I = J \cap DOMAIN f /\ J \subseteq DOMAIN a
    <3>. HIDE DEF f, a
    <3>1. PICK k \in Nat, l \in Nat : /\ k <= l /\ DOMAIN f = 1 .. k /\ DOMAIN a = 1 .. l
                                     /\ \A i \in 1 .. k : f[i] = a[i]
      BY <1>7 DEF Begins, f, a
    <3>2. \A i \in DOMAIN f : i \in DOMAIN a /\ f[i] = a[i]  BY <3>1
    <3>. QED  BY <3>2
  <2>2. Begins(f, a)  BY <1>7
  <2>. HIDE DEF f, a, I, J
  <2>. QED  BY <2>1, <2>2, ExtractBegins
<1>9. /\ Messages(p) = [i \in DOMAIN Extract(f, I) |-> Extract(f, I)[i].message]
      /\ Messages(s) = [i \in DOMAIN Extract(a, J) |-> Extract(a, J)[i].message]
  BY <1>1, <1>3 DEF Messages, SplitHandshake
<1>. HIDE DEF f, a, I, J
<1>10. Begins(Messages(p), Messages(s))
  <2>. DEFINE e == Extract(f, I)
              g == Extract(a, J)
  <2>1. PICK k \in Nat, l \in Nat : /\ k <= l /\ DOMAIN e = 1 .. k /\ DOMAIN g = 1 .. l
                                   /\ \A i \in 1 .. k : e[i] = g[i]
    BY <1>8 DEF Begins
  <2>2. /\ Messages(p) = [i \in DOMAIN e |-> e[i].message]
        /\ Messages(s) = [i \in DOMAIN g |-> g[i].message]
    BY <1>9
  <2>. HIDE DEF e, g
  <2>3. DOMAIN Messages(p) = 1 .. k /\ DOMAIN Messages(s) = 1 .. l  BY <2>1, <2>2
  <2>4. \A i \in 1 .. k : Messages(p)[i] = Messages(s)[i]  BY <2>1, <2>2
  <2>. QED  BY <2>1, <2>3, <2>4 DEF Begins
<1>11. ASSUME \A i \in DOMAIN s : s[i].type = "handshake" => i \in DOMAIN p
       PROVE  Messages(p) = Messages(s)
  <2>1. f = a  BY <1>6, <1>7, <1>11 DEF f, a
  <2>2. HandshakePieces(p) = HandshakePieces(s)  BY <1>1, <1>3, <2>1 DEF f, a
  <2>. QED  BY <2>2 DEF Messages
<1>. QED  BY <1>10, <1>11

\* The least of some numbers.
LEMMA MinIs ==
  ASSUME NEW S \in SUBSET Int, NEW x \in S, \A y \in S : x <= y
  PROVE  Min(S) = x
<1>1. \A z \in S : (\A y \in S : z <= y) => z = x  OBVIOUS
<1>. QED  BY <1>1 DEF Min

\* The first alert of the first records, if they have one, is the first of all.
LEMMA AlertBegins ==
  ASSUME NEW p, NEW s, Begins(p, s)
  PROVE  /\ Alerts(p) \subseteq Alerts(s)
         /\ Alerts(p) # {} => Reassemble(p).alert = Reassemble(s).alert
         /\ Alerts(p) # {} => Reassemble(p).alert # None
         /\ Alerts(p) = {} => Reassemble(p).alert = None
<1>1. PICK m \in Nat, n \in Nat : /\ m <= n /\ DOMAIN p = 1 .. m /\ DOMAIN s = 1 .. n
                                 /\ \A i \in 1 .. m : p[i] = s[i]
  BY DEF Begins
<1>2. \A i : i \in Alerts(p) <=> i \in 1 .. m /\ i \in Alerts(s)
  BY <1>1 DEF Alerts
<1>3. Alerts(p) \in SUBSET Int /\ IsFiniteSet(Alerts(p)) /\ Alerts(s) \in SUBSET Int
  <2>1. IsFiniteSet(1 .. m)  BY FS_Interval
  <2>2. Alerts(s) \subseteq 1 .. n  BY <1>1 DEF Alerts
  <2>. QED  BY <1>2, <2>1, <2>2, FS_Subset
<1>4. ASSUME Alerts(p) # {}
      PROVE  Reassemble(p).alert = Reassemble(s).alert /\ Reassemble(p).alert # None
  <2>1. PICK x \in Alerts(p) : \A y \in Alerts(p) : x <= y  BY <1>3, <1>4, LeastOf
  <2>2. \A y \in Alerts(s) : x <= y
    <3>. SUFFICES ASSUME NEW y \in Alerts(s) PROVE x <= y  OBVIOUS
    <3>1. y \in 1 .. n /\ x \in 1 .. m  BY <1>1, <1>2 DEF Alerts
    <3>2. y \in Alerts(p) \/ y > m  BY <1>2, <3>1
    <3>. QED  BY <2>1, <3>1, <3>2
  <2>3. Min(Alerts(p)) = x  BY <1>3, <2>1, MinIs
  <2>4. Min(Alerts(s)) = x  BY <1>2, <1>3, <2>2, MinIs
  <2>5. Alerts(s) # {} /\ p[x] = s[x]  BY <1>1, <1>2
  <2>6. Reassemble(p).alert = p[x].level  BY <1>4, <2>3 DEF Reassemble
  <2>7. Reassemble(s).alert = s[x].level  BY <2>4, <2>5 DEF Reassemble
  <2>8. p[x].level # None  BY DEF Alerts
  <2>. QED  BY <2>5, <2>6, <2>7, <2>8
<1>5. Alerts(p) = {} => Reassemble(p).alert = None  BY DEF Reassemble
<1>. QED  BY <1>2, <1>4, <1>5

-----------------------------------------------------------------------------
\* Where the two messages that are read stand.
HellosIn(messages) == {i \in DOMAIN messages : messages[i].type = "server_hello"}
ExchangesIn(messages) ==
  {i \in DOMAIN messages : /\ messages[i].type = "server_key_exchange"
                           /\ \E h \in HellosIn(messages) : h < i}

\* What is read of them.
HelloAt(messages, i) == ParseServerHello(messages[i].body)
ExchangeAt(messages, i) ==
  LET before == HelloAt(messages, Max({h \in HellosIn(messages) : h < i}))
  IN ParseServerKeyExchange(messages[i].body, before.version, before.suite \in FiniteFieldSuites)

HelloOf(messages) ==
  IF HellosIn(messages) = {} THEN None ELSE HelloAt(messages, Max(HellosIn(messages)))

ExchangeOf(messages) ==
  IF ExchangesIn(messages) = {} THEN None ELSE ExchangeAt(messages, Max(ExchangesIn(messages)))

\* What ParseFlight hands back depends on the messages and the first alert.
LEMMA FlightRead ==
  ASSUME NEW records
  PROVE  \/ ParseFlight(records) = [error |-> "parse"]
         \/ ParseFlight(records) = [fatal |-> Reassemble(records).alert = "fatal",
                                    hello |-> HelloOf(Messages(records)),
                                    keyExchange |-> ExchangeOf(Messages(records))]
BY ZenonT(40) DEF ParseFlight, Messages, Reassemble, HellosIn, ExchangesIn, HelloAt, ExchangeAt, HelloOf,
       ExchangeOf

\* Two flights with the same messages and the same first alert are read alike.
LEMMA SameFlight ==
  ASSUME NEW p, NEW s, Messages(p) = Messages(s), Reassemble(p).alert = Reassemble(s).alert
  PROVE  ParseFlight(p) = ParseFlight(s)
<1>1. Reassemble(p).handshake = HandshakePieces(p) /\ Reassemble(s).handshake = HandshakePieces(s)
  BY DEF Reassemble
<1>2. SplitHandshake(Reassemble(p).handshake) = SplitHandshake(Reassemble(s).handshake)
  BY <1>1 DEF Messages
<1>. QED  BY <1>2 DEF ParseFlight

\* The greatest of one number.
LEMMA MaxOne == ASSUME NEW x \in Int PROVE Max({x}) = x
BY DEF Max

\* The hello and the key exchange of the first messages are none or those of all.
LEMMA AnswerBegins ==
  ASSUME NEW p, NEW s, OneAnswer(s), NEW a, a = Messages(p), NEW b, b = Messages(s), Begins(a, b)
  PROVE  HelloOf(a) \in {None, HelloOf(b)} /\ ExchangeOf(a) \in {None, ExchangeOf(b)}
<1>0. \A i, j \in DOMAIN b :
        /\ b[i].type = b[j].type /\ b[i].type \in {"server_hello", "server_key_exchange"}
        => i = j
  BY DEF OneAnswer
<1>1. PICK m \in Nat, n \in Nat : /\ m <= n /\ DOMAIN a = 1 .. m /\ DOMAIN b = 1 .. n
                                 /\ \A i \in 1 .. m : a[i] = b[i]
  BY DEF Begins
<1>2. \A i : i \in HellosIn(a) <=> i \in 1 .. m /\ i \in HellosIn(b)  BY <1>1 DEF HellosIn
<1>3. \A h \in HellosIn(b) : h \in Int /\ HellosIn(b) = {h}
  BY <1>0, <1>1 DEF HellosIn
<1>4. ASSUME NEW h \in HellosIn(a)
      PROVE  /\ HellosIn(a) = {h} /\ HellosIn(b) = {h} /\ h \in 1 .. m
             /\ HelloAt(a, h) = HelloAt(b, h)
  <2>1. h \in 1 .. m /\ HellosIn(b) = {h}  BY <1>2, <1>3
  <2>2. HellosIn(a) = {h}  BY <1>2, <2>1
  <2>3. HelloAt(a, h) = HelloAt(b, h)  BY <1>1, <2>1 DEF HelloAt
  <2>. QED  BY <2>1, <2>2, <2>3
<1>5. HelloOf(a) \in {None, HelloOf(b)}
  <2>1. CASE HellosIn(a) = {}  BY <2>1 DEF HelloOf
  <2>2. CASE HellosIn(a) # {}
    <3>1. PICK h \in HellosIn(a) : TRUE  BY <2>2
    <3>2. h \in Int /\ HellosIn(a) = {h} /\ HellosIn(b) = {h}  BY <1>4
    <3>3. Max({h}) = h  BY <3>2, MaxOne
    <3>4. HelloOf(a) = HelloAt(a, h) /\ HelloOf(b) = HelloAt(b, h)  BY <3>2, <3>3 DEF HelloOf
    <3>. QED  BY <1>4, <3>4
  <2>. QED  BY <2>1, <2>2
<1>6. ExchangeOf(a) \in {None, ExchangeOf(b)}
  <2>1. CASE ExchangesIn(a) = {}  BY <2>1 DEF ExchangeOf
  <2>2. CASE ExchangesIn(a) # {}
    <3>1. PICK x \in ExchangesIn(a) : TRUE  BY <2>2
    <3>2. PICK h \in HellosIn(a) : h < x  BY DEF ExchangesIn
    <3>3. x \in 1 .. m /\ x \in Int /\ x \in 1 .. n /\ a[x] = b[x] /\ a[x].type = "server_key_exchange"
      BY <1>1 DEF ExchangesIn
    <3>4. h \in Int /\ HellosIn(a) = {h} /\ HellosIn(b) = {h} /\ HelloAt(a, h) = HelloAt(b, h)
      BY <1>4
    <3>5. x \in ExchangesIn(b)  BY <1>1, <3>2, <3>3, <3>4 DEF ExchangesIn
    <3>6. ExchangesIn(b) = {x}
      <4>1. \A y \in ExchangesIn(b) : y = x  BY <1>0, <1>1, <3>3 DEF ExchangesIn
      <4>. QED  BY <3>5, <4>1
    <3>7. ExchangesIn(a) = {x}
      <4>1. \A y \in ExchangesIn(a) : y \in ExchangesIn(b)
        BY <1>1, <1>2 DEF ExchangesIn
      <4>. QED  BY <3>1, <3>6, <4>1
    <3>8. {k \in HellosIn(a) : k < x} = {h} /\ {k \in HellosIn(b) : k < x} = {h}  BY <3>2, <3>4
    <3>9. ExchangeAt(a, x) = ExchangeAt(b, x)  BY <3>3, <3>4, <3>8, MaxOne DEF ExchangeAt
    <3>10. Max({x}) = x  BY <3>3, MaxOne
    <3>11. ExchangeOf(a) = ExchangeAt(a, x) /\ ExchangeOf(b) = ExchangeAt(b, x)
      BY <3>6, <3>7, <3>10 DEF ExchangeOf
    <3>. QED  BY <3>9, <3>11
  <2>. QED  BY <2>1, <2>2
<1>. QED  BY <1>5, <1>6

-----------------------------------------------------------------------------
\* The greatest of finitely many numbers.
LEMMA MaxFacts ==
  ASSUME NEW S \in SUBSET Int, IsFiniteSet(S), S # {}
  PROVE  Max(S) \in S /\ \A y \in S : y <= Max(S)
<1>. DEFINE a == Ascending(S)
            n == Cardinality(S)
<1>1. /\ n \in Nat /\ a \in [1 .. n -> S] /\ ToSet(a) = S
      /\ \A i, j \in 1 .. n : i < j => a[i] < a[j]
  BY AscendingFacts
<1>. HIDE DEF a, n
<1>2. \A y \in S : \E k \in 1 .. n : a[k] = y  BY <1>1 DEF ToSet
<1>3. n \in 1 .. n
  <2>1. PICK y \in S : TRUE  OBVIOUS
  <2>2. PICK k \in 1 .. n : a[k] = y  BY <1>2, <2>1
  <2>. QED  BY <1>1, <2>2
<1>4. ASSUME NEW y \in S PROVE a[n] >= y
  <2>1. PICK k \in 1 .. n : a[k] = y  BY <1>2
  <2>2. k = n \/ k < n  BY <1>1
  <2>3. a[n] \in Int /\ a[k] \in Int  BY <1>1, <1>3
  <2>. QED  BY <1>1, <1>3, <2>1, <2>2, <2>3
<1>5. a[n] \in S  BY <1>1, <1>3
<1>6. Max(S) \in S /\ \A y \in S : Max(S) >= y  BY <1>4, <1>5 DEF Max
<1>. QED  BY <1>6

\* The first few records of a stream are a stream that it begins with.
LEMMA FirstOf ==
  ASSUME NEW s, IsStream(s), NEW k \in 0 .. Len(s)
  PROVE  /\ DOMAIN SubSeq(s, 1, k) = 1 .. k /\ \A i \in 1 .. k : SubSeq(s, 1, k)[i] = s[i]
         /\ IsStream(SubSeq(s, 1, k)) /\ Begins(SubSeq(s, 1, k), s)
         /\ \A l \in k .. Len(s) : Begins(SubSeq(s, 1, k), SubSeq(s, 1, l))
<1>. DEFINE n == Len(s)
<1>1. n \in Nat /\ DOMAIN s = 1 .. n  BY LenProperties DEF IsStream
<1>. HIDE DEF n
<1>2. ASSUME NEW l \in 0 .. n
      PROVE  /\ SubSeq(s, 1, l) \in Seq(ToSet(SubSeq(s, 1, l)))
             /\ DOMAIN SubSeq(s, 1, l) = 1 .. l /\ \A i \in 1 .. l : SubSeq(s, 1, l)[i] = s[i]
  <2>1. \A i \in 1 .. l : s[i] \in ToSet(s)  BY <1>1 DEF ToSet
  <2>2. l \in Int /\ 1 \in Int  BY <1>1
  <2>3. /\ SubSeq(s, 1, l) \in Seq(ToSet(s))
        /\ Len(SubSeq(s, 1, l)) = IF 1 <= l THEN l - 1 + 1 ELSE 0
        /\ \A i \in 1 .. l - 1 + 1 : SubSeq(s, 1, l)[i] = s[1 + i - 1]
    BY <2>1, <2>2, SubSeqProperties
  <2>4. Len(SubSeq(s, 1, l)) = l /\ l \in Nat  BY <1>1, <2>3
  <2>5. DOMAIN SubSeq(s, 1, l) = 1 .. l  BY <2>3, <2>4, LenProperties
  <2>6. \A i \in 1 .. l : SubSeq(s, 1, l)[i] = s[i]
    <3>. SUFFICES ASSUME NEW i \in 1 .. l PROVE SubSeq(s, 1, l)[i] = s[i]  OBVIOUS
    <3>1. i \in 1 .. l - 1 + 1 /\ 1 + i - 1 = i  BY <2>4
    <3>. QED  BY <2>3, <3>1
  <2>7. SubSeq(s, 1, l) \in Seq(ToSet(SubSeq(s, 1, l)))
    <3>. DEFINE t == SubSeq(s, 1, l)
    <3>1. t \in Seq(ToSet(s)) /\ DOMAIN t = 1 .. l /\ Len(t) = l  BY <2>3, <2>4, <2>5
    <3>. HIDE DEF t
    <3>2. t = [i \in 1 .. l |-> t[i]]  BY <3>1, LenProperties
    <3>3. \A i \in 1 .. l : t[i] \in ToSet(t)  BY <3>1 DEF ToSet
    <3>4. [i \in 1 .. l |-> t[i]] \in Seq(ToSet(t))  BY <2>4, <3>3, IsASeq
    <3>5. t \in Seq(ToSet(t))  BY <3>2, <3>4
    <3>. QED  BY <3>5 DEF t
  <2>. QED  BY <2>5, <2>6, <2>7
<1>3. k \in 0 .. n  BY DEF n
<1>4. IsStream(SubSeq(s, 1, k))
  <2>1. \A i \in 1 .. k : s[i].pieces \in Seq(ToSet(s[i].pieces))  BY <1>1, <1>3 DEF IsStream
  <2>. QED  BY <1>2, <1>3, <2>1 DEF IsStream
<1>5. Begins(SubSeq(s, 1, k), s)
  <2>1. k <= n /\ k \in Nat  BY <1>1, <1>3
  <2>. QED  BY <1>1, <1>2, <1>3, <2>1 DEF Begins
<1>6. ASSUME NEW l \in k .. n PROVE Begins(SubSeq(s, 1, k), SubSeq(s, 1, l))
  <2>1. l \in 0 .. n /\ k <= l /\ k \in Nat /\ l \in Nat  BY <1>1, <1>3
  <2>2. \A i \in 1 .. k : SubSeq(s, 1, k)[i] = SubSeq(s, 1, l)[i]
    <3>1. \A i \in 1 .. k : i \in 1 .. l  BY <2>1
    <3>. QED  BY <1>2, <1>3, <2>1, <3>1
  <2>. QED  BY <1>2, <1>3, <2>1, <2>2 DEF Begins
<1>. QED  BY <1>2, <1>3, <1>4, <1>5, <1>6 DEF n

\* The first few records are read as a whole: those that are all there.
LEMMA SplitIs ==
  ASSUME NEW s, IsStream(s), NEW n \in Nat
  PROVE  /\ Units(s) \in Nat
         /\ \E k \in 0 .. Len(s) : SplitRecords(s, n) = SubSeq(s, 1, k) /\ (n = 0 => k = 0)
         /\ n >= Units(s) => SplitRecords(s, n) = s
<1>. DEFINE m == Len(s)
            K == {k \in 0 .. m : Units(SubSeq(s, 1, k)) <= n}
<1>1. m \in Nat /\ DOMAIN s = 1 .. m  BY LenProperties DEF IsStream
<1>2. ASSUME NEW t, IsStream(t)
      PROVE  /\ Units(t) \in Nat /\ (Len(t) = 0 => Units(t) = 0) /\ Len(t) \in Nat
             /\ Len(t) > 0 => Units(t) > 0
  <2>. DEFINE sizes == [i \in DOMAIN t |-> Size(t[i])]
              l == Len(t)
  <2>1. l \in Nat /\ DOMAIN t = 1 .. l  BY <1>2, LenProperties DEF IsStream
  <2>2. sizes \in [1 .. l -> Nat] /\ \A i \in 1 .. l : sizes[i] > 0
    <3>1. ASSUME NEW i \in 1 .. l PROVE Size(t[i]) \in Nat /\ Size(t[i]) > 0
      <4>1. t[i].pieces \in Seq(ToSet(t[i].pieces))  BY <1>2, <2>1 DEF IsStream
      <4>2. Len(t[i].pieces) \in Nat  BY <4>1, LenProperties
      <4>. QED  BY <4>2 DEF Size
    <3>. QED  BY <2>1, <3>1
  <2>3. Units(t) = Total(sizes)  BY DEF Units
  <2>. HIDE DEF sizes, l
  <2>4. Total(sizes) \in Nat  BY <2>1, <2>2, UnitsFinite
  <2>5. l = 0 => Total(sizes) = 0
    <3>1. l = 0 => DOMAIN sizes = {}  BY <2>2
    <3>. QED  BY <3>1, TotalNone
  <2>6. l > 0 => Total(sizes) > 0
    <3>1. l > 0 => 1 \in 1 .. l  BY <2>1
    <3>2. l > 0 => sizes[1] <= Total(sizes)  BY <2>1, <2>2, <3>1, TotalOver
    <3>3. l > 0 => sizes[1] \in Nat /\ sizes[1] > 0  BY <2>2, <3>1
    <3>. QED  BY <2>4, <3>2, <3>3
  <2>. QED  BY <2>1, <2>3, <2>4, <2>5, <2>6 DEF l
<1>. HIDE DEF m
<1>3. ASSUME NEW k \in 0 .. m
      PROVE  /\ IsStream(SubSeq(s, 1, k)) /\ Len(SubSeq(s, 1, k)) = k
  <2>1. IsStream(SubSeq(s, 1, k)) /\ DOMAIN SubSeq(s, 1, k) = 1 .. k  BY FirstOf DEF m
  <2>2. /\ Len(SubSeq(s, 1, k)) \in Nat
        /\ DOMAIN SubSeq(s, 1, k) = 1 .. Len(SubSeq(s, 1, k))
    BY <2>1, LenProperties DEF IsStream
  <2>. DEFINE l == Len(SubSeq(s, 1, k))
  <2>3. l \in Nat /\ 1 .. l = 1 .. k /\ k \in Nat  BY <1>1, <2>1, <2>2
  <2>. HIDE DEF l
  <2>4. l = k
    <3>1. (l = 0 \/ l \in 1 .. k) /\ (k = 0 \/ k \in 1 .. l)  BY <2>3
    <3>. QED  BY <2>3, <3>1
  <2>. QED  BY <2>1, <2>4 DEF l
<1>4. K \in SUBSET Int /\ IsFiniteSet(K) /\ 0 \in K
  <2>1. IsFiniteSet(0 .. m)  BY <1>1, FS_Interval
  <2>2. 0 \in 0 .. m  BY <1>1
  <2>3. Units(SubSeq(s, 1, 0)) = 0  BY <1>2, <1>3, <2>2
  <2>4. K \subseteq 0 .. m  OBVIOUS
  <2>5. 0 \in K  BY <2>2, <2>3
  <2>. HIDE DEF K
  <2>6. IsFiniteSet(K)  BY <2>1, <2>4, FS_Subset
  <2>7. K \in SUBSET Int  BY <1>1, <2>4
  <2>. QED  BY <2>5, <2>6, <2>7
<1>5. SplitRecords(s, n) = SubSeq(s, 1, Max(K))  BY DEF SplitRecords, m
<1>6. \A k \in K : k \in 0 .. m /\ Units(SubSeq(s, 1, k)) <= n  OBVIOUS
<1>7. m \in 0 .. m /\ SubSeq(s, 1, m) = s
  <2>1. s \in Seq(ToSet(s))  BY DEF IsStream
  <2>. QED  BY <1>1, <2>1, SubSeqFull DEF m
<1>8. n >= Units(s) => m \in K
  <2>1. Units(s) \in Nat  BY <1>2
  <2>. QED  BY <1>7, <2>1
<1>. HIDE DEF K
<1>9. Max(K) \in K /\ \A k \in K : k <= Max(K)  BY <1>4, MaxFacts
<1>10. n = 0 => Max(K) = 0
  <2>. DEFINE k == Max(K)
  <2>1. k \in 0 .. m /\ Units(SubSeq(s, 1, k)) <= n  BY <1>6, <1>9
  <2>2. IsStream(SubSeq(s, 1, k)) /\ Len(SubSeq(s, 1, k)) = k  BY <1>3, <2>1
  <2>3. Units(SubSeq(s, 1, k)) \in Nat /\ (k > 0 => Units(SubSeq(s, 1, k)) > 0)  BY <1>2, <2>2
  <2>. HIDE DEF k
  <2>4. n = 0 => k = 0  BY <1>1, <2>1, <2>3
  <2>. QED  BY <2>4 DEF k
<1>11. n >= Units(s) => Max(K) = m  BY <1>1, <1>6, <1>8, <1>9
<1>12. Units(s) \in Nat  BY <1>2
<1>13. \E k \in 0 .. m : SplitRecords(s, n) = SubSeq(s, 1, k) /\ (n = 0 => k = 0)
  BY <1>5, <1>6, <1>9, <1>10
<1>. QED  BY <1>5, <1>7, <1>11, <1>12, <1>13 DEF m

-----------------------------------------------------------------------------
\* The loop looks for an alert, for anything encrypted and for a last message.
LEMMA CompleteIs ==
  ASSUME NEW records
  PROVE  FlightIsComplete(records)
           <=> \/ Reassemble(records).alert # None \/ AnyEncrypted(records)
               \/ \E i \in DOMAIN Messages(records) : EndsFlight(Messages(records)[i])
<1>1. /\ Reassemble(records).handshake = HandshakePieces(records)
      /\ Reassemble(records).encrypted = AnyEncrypted(records)
  BY DEF Reassemble
<1>. QED  BY <1>1 DEF FlightIsComplete, Messages

\* Nothing is not a flight.
LEMMA NothingIncomplete == ~FlightIsComplete(<<>>)
<1>1. DOMAIN <<>> = 1 .. 0 /\ 1 .. 0 = {}  OBVIOUS
<1>2. Alerts(<<>>) = {} /\ ~AnyEncrypted(<<>>)  BY <1>1 DEF Alerts, AnyEncrypted
<1>3. Reassemble(<<>>).alert = None  BY <1>2 DEF Reassemble
<1>4. DOMAIN HandshakePieces(<<>>) = {}
  <2>1. DOMAIN Payloads(<<>>) = 1 .. 0 /\ HandshakePieces(<<>>) = Gathered(Payloads(<<>>))
    BY <1>1 DEF Payloads, HandshakePieces
  <2>2. \A i \in 1 .. 0 : Payloads(<<>>)[i] \in Seq({})  BY <1>1
  <2>3. Gathered(Payloads(<<>>)) \in Seq({})  BY <2>1, <2>2, GatheredFacts
  <2>. DEFINE g == Gathered(Payloads(<<>>))
  <2>4. g \in Seq({})  BY <2>3
  <2>5. DOMAIN HandshakePieces(<<>>) = DOMAIN g  BY <2>1
  <2>. HIDE DEF g
  <2>6. DOMAIN g = 1 .. Len(g) /\ \A i \in 1 .. Len(g) : g[i] \in {}
    BY <2>4, LenProperties, ElementOfSeq
  <2>. QED  BY <2>5, <2>6
<1>5. DOMAIN Messages(<<>>) = {}
  <2>. DEFINE pieces == HandshakePieces(<<>>)
              I == {i \in DOMAIN pieces : pieces[i].last}
  <2>1. I = {}  BY <1>4
  <2>2. Extract(pieces, {}) = <<>>
    <3>1. 0 \in Int  OBVIOUS
    <3>. HIDE DEF pieces
    <3>. QED  BY <3>1, ExtractOne
  <2>3. Extract(pieces, I) = <<>>  BY <2>1, <2>2
  <2>4. DOMAIN Messages(<<>>) = DOMAIN Extract(pieces, I)  BY DEF Messages, SplitHandshake
  <2>. HIDE DEF pieces, I
  <2>. QED  BY <1>1, <2>3, <2>4
<1>. QED  BY <1>2, <1>3, <1>5, CompleteIs

\* More records do not undo the end of a flight.
LEMMA CompleteStays ==
  ASSUME NEW p, NEW s, IsStream(s), Begins(p, s), FlightIsComplete(p)
  PROVE  FlightIsComplete(s)
<1>1. CASE Reassemble(p).alert # None
  <2>1. Alerts(p) # {} /\ Reassemble(s).alert = Reassemble(p).alert  BY <1>1, AlertBegins
  <2>. QED  BY <1>1, <2>1, CompleteIs
<1>2. CASE AnyEncrypted(p)
  <2>1. \A i \in DOMAIN p : i \in DOMAIN s /\ p[i] = s[i]  BY DEF Begins
  <2>2. AnyEncrypted(s)  BY <1>2, <2>1 DEF AnyEncrypted
  <2>. QED  BY <2>2, CompleteIs
<1>3. CASE \E i \in DOMAIN Messages(p) : EndsFlight(Messages(p)[i])
  <2>1. Begins(Messages(p), Messages(s))  BY MessagesBegin
  <2>2. \A i \in DOMAIN Messages(p) : i \in DOMAIN Messages(s) /\ Messages(p)[i] = Messages(s)[i]
    BY <2>1 DEF Begins
  <2>3. \E i \in DOMAIN Messages(s) : EndsFlight(Messages(s)[i])  BY <1>3, <2>2
  <2>. QED  BY <2>3, CompleteIs
<1>. QED  BY <1>1, <1>2, <1>3, CompleteIs

\* The last and the first of some places are among them.
LEMMA LastAmong ==
  ASSUME NEW m \in Nat, NEW S, S \subseteq 1 .. m, S # {}
  PROVE  Max(S) \in S
<1>1. IsFiniteSet(1 .. m)  BY FS_Interval
<1>2. IsFiniteSet(S)  BY <1>1, FS_Subset
<1>3. S \in SUBSET Int  OBVIOUS
<1>. QED  BY <1>2, <1>3, MaxFacts

LEMMA FirstAmong ==
  ASSUME NEW m \in Nat, NEW S, S \subseteq 1 .. m, S # {}
  PROVE  Min(S) \in S /\ \A y \in S : Min(S) <= y
<1>1. IsFiniteSet(1 .. m)  BY FS_Interval
<1>2. IsFiniteSet(S)  BY <1>1, FS_Subset
<1>3. S \in SUBSET Int  OBVIOUS
<1>4. PICK x \in S : \A y \in S : x <= y  BY <1>2, <1>3, LeastOf
<1>5. Min(S) = x  BY <1>3, <1>4, MinIs
<1>. QED  BY <1>4, <1>5

\* What a server that is understood means by its messages is read of the first of
\* them too.
LEMMA FirstUnderstood ==
  ASSUME NEW s, Understood(s), NEW a, NEW b, b = Messages(s), Begins(a, b)
  PROVE  /\ \A i \in HellosIn(a) : i \in HellosIn(b) /\ HelloAt(a, i) = b[i].meant
         /\ \A i \in ExchangesIn(a) :
              /\ i \in ExchangesIn(b)
              /\ \/ ExchangeAt(a, i) = b[i].meant
                 \/ \E h \in HellosIn(a) : b[h].meant = None
<1>1. PICK m \in Nat, n \in Nat : /\ m <= n /\ DOMAIN a = 1 .. m /\ DOMAIN b = 1 .. n
                                 /\ \A i \in 1 .. m : a[i] = b[i]
  BY DEF Begins
<1>2. \A i : i \in HellosIn(a) <=> i \in 1 .. m /\ i \in HellosIn(b)  BY <1>1 DEF HellosIn
<1>3. ASSUME NEW i \in HellosIn(a) PROVE HelloAt(a, i) = b[i].meant
  <2>1. i \in HellosIn(b) /\ i \in 1 .. m  BY <1>2
  <2>2. ParseServerHello(b[i].body) = b[i].meant  BY <2>1 DEF Understood, HellosIn
  <2>. QED  BY <1>1, <2>1, <2>2 DEF HelloAt
<1>4. ASSUME NEW i \in ExchangesIn(a)
      PROVE  /\ i \in ExchangesIn(b)
             /\ \/ ExchangeAt(a, i) = b[i].meant
                \/ \E h \in HellosIn(a) : b[h].meant = None
  <2>. DEFINE earlier == {h \in HellosIn(a) : h < i}
              before == Max(earlier)
  <2>1. i \in 1 .. m /\ i \in 1 .. n /\ i \in Int /\ a[i] = b[i] /\ a[i].type = "server_key_exchange"
    BY <1>1 DEF ExchangesIn
  <2>2. earlier = {h \in HellosIn(b) : h < i}
    <3>1. \A h \in HellosIn(b) : h < i => h \in 1 .. m
      <4>1. \A h \in HellosIn(b) : h \in 1 .. n  BY <1>1 DEF HellosIn
      <4>. QED  BY <1>1, <2>1, <4>1
    <3>. QED  BY <1>2, <3>1
  <2>3. earlier # {}  BY DEF ExchangesIn
  <2>4. i \in ExchangesIn(b)
    <3>1. PICK h \in earlier : TRUE  BY <2>3
    <3>. QED  BY <1>1, <1>2, <2>1, <3>1 DEF ExchangesIn
  <2>5. before \in HellosIn(a)
    <3>1. earlier \subseteq 1 .. m  BY <1>2
    <3>. HIDE DEF earlier
    <3>2. before \in earlier  BY <2>3, <3>1, LastAmong
    <3>. QED  BY <3>2 DEF earlier
  <2>. HIDE DEF before
  <2>6. HelloAt(a, before) = b[before].meant /\ before \in HellosIn(b)  BY <1>2, <1>3, <2>5
  <2>7. ExchangeAt(a, i)
          = ParseServerKeyExchange(a[i].body, HelloAt(a, before).version,
                                   HelloAt(a, before).suite \in FiniteFieldSuites)
    BY DEF ExchangeAt, before
  <2>. DEFINE later == {h \in {j \in DOMAIN b : b[j].type = "server_hello"} : h < i}
  <2>8. later = earlier  BY <2>2 DEF HellosIn
  <2>9. Max(later) = before  BY <2>8 DEF before
  <2>10. b[Max(later)].meant # None =>
           b[i].meant = ParseServerKeyExchange(b[i].body, b[Max(later)].meant.version,
                                               b[Max(later)].meant.suite \in FiniteFieldSuites)
    BY <1>1, <2>1, <2>3, <2>8 DEF Understood
  <2>. HIDE DEF earlier, later
  <2>11. b[before].meant # None => ExchangeAt(a, i) = b[i].meant
    BY <2>1, <2>6, <2>7, <2>9, <2>10
  <2>. QED  BY <2>4, <2>5, <2>11
<1>. QED  BY <1>2, <1>3, <1>4

\* A flight that is understood is complete once the server has ended it.
LEMMA EndedIsComplete ==
  ASSUME NEW s, IsStream(s), Understood(s), NEW p, Begins(p, s)
  PROVE  FlightIsComplete(p) <=> Ended(p)
<1>. DEFINE a == Messages(p)
            b == Messages(s)
<1>1. Begins(a, b)  BY MessagesBegin
<1>. HIDE DEF a, b
<1>2. \A i \in HellosIn(a) : HelloAt(a, i) = b[i].meant  BY <1>1, FirstUnderstood DEF b
<1>3. \A i \in DOMAIN a : a[i] = b[i]  BY <1>1 DEF Begins
<1>4. \A i \in DOMAIN a : a[i].type = "server_hello" => ParseServerHello(a[i].body) = a[i].meant
  BY <1>2, <1>3 DEF HellosIn, HelloAt
<1>5. FlightIsComplete(p)
        <=> Alerts(p) # {} \/ AnyEncrypted(p) \/ \E i \in DOMAIN a : EndsFlight(a[i])
  <2>1. Reassemble(p).alert # None <=> Alerts(p) # {}
    <3>1. Alerts(p) = {} => Reassemble(p).alert = None  BY DEF Reassemble
    <3>2. ASSUME Alerts(p) # {} PROVE Reassemble(p).alert # None
      <4>1. PICK m \in Nat : DOMAIN p = 1 .. m  BY DEF Begins
      <4>2. Alerts(p) \subseteq 1 .. m  BY <4>1 DEF Alerts
      <4>3. Min(Alerts(p)) \in Alerts(p)  BY <3>2, <4>2, FirstAmong
      <4>. QED  BY <3>2, <4>3 DEF Reassemble, Alerts
    <3>. QED  BY <3>1, <3>2
  <2>. QED  BY <2>1, CompleteIs DEF a
<1>6. \A i \in DOMAIN a :
        EndsFlight(a[i])
          <=> \/ a[i].type = "server_hello_done"
              \/ /\ a[i].type = "server_hello" /\ a[i].meant # None
                 /\ a[i].meant.helloRetryRequest \/ a[i].meant.version >= Tls13
  BY <1>4 DEF EndsFlight
<1>. QED  BY <1>5, <1>6 DEF Ended, a

\* A server that adds nothing to a flight it has ended has said in it all it says.
LEMMA EndIsAll ==
  ASSUME NEW s, IsStream(s), Understood(s), LastWord(s),
         NEW k \in 0 .. Len(s), FlightIsComplete(SubSeq(s, 1, k))
  PROVE  ParseFlight(SubSeq(s, 1, k)) = ParseFlight(s)
<1>. DEFINE p == SubSeq(s, 1, k)
            n == Len(s)
<1>1. n \in Nat /\ DOMAIN s = 1 .. n  BY LenProperties DEF IsStream
<1>. HIDE DEF n
<1>2. DOMAIN p = 1 .. k /\ Begins(p, s) /\ k \in 0 .. n  BY FirstOf DEF n
<1>3. ASSUME NEW j \in 1 .. n, j > k
      PROVE  s[j].type # "handshake" /\ (j \in Alerts(s) => Alerts(SubSeq(s, 1, j - 1)) # {})
  <2>. DEFINE before == SubSeq(s, 1, j - 1)
  <2>1. j - 1 \in k .. n /\ j - 1 \in 0 .. n  BY <1>1, <1>2, <1>3
  <2>2. Begins(p, before)  BY <2>1, FirstOf DEF n
  <2>3. IsStream(before)  BY <2>1, FirstOf DEF n
  <2>. HIDE DEF before
  <2>4. FlightIsComplete(before)  BY <2>2, <2>3, CompleteStays
  <2>5. Begins(before, s)  BY <2>1, FirstOf DEF n, before
  <2>6. Ended(before)  BY <2>4, <2>5, EndedIsComplete
  <2>. QED  BY <1>1, <2>6 DEF LastWord, before
<1>4. Messages(p) = Messages(s)
  <2>1. \A i \in DOMAIN s : s[i].type = "handshake" => i \in DOMAIN p
    <3>. SUFFICES ASSUME NEW i \in 1 .. n, s[i].type = "handshake" PROVE i \in 1 .. k
      BY <1>1, <1>2
    <3>. QED  BY <1>1, <1>2, <1>3
  <2>. HIDE DEF p
  <2>. QED  BY <1>2, <2>1, MessagesBegin
<1>5. Reassemble(p).alert = Reassemble(s).alert
  <2>1. CASE Alerts(p) # {}
    <3>. HIDE DEF p
    <3>. QED  BY <1>2, <2>1, AlertBegins
  <2>2. CASE Alerts(p) = {}
    <3>1. Alerts(s) = {}
      <4>. SUFFICES ASSUME Alerts(s) # {} PROVE FALSE  OBVIOUS
      <4>1. Alerts(s) \in SUBSET Int /\ IsFiniteSet(Alerts(s)) /\ Alerts(s) \subseteq 1 .. n
        <5>1. IsFiniteSet(1 .. n)  BY <1>1, FS_Interval
        <5>2. Alerts(s) \subseteq 1 .. n  BY <1>1 DEF Alerts
        <5>3. IsFiniteSet(Alerts(s))  BY <5>1, <5>2, FS_Subset
        <5>4. Alerts(s) \in SUBSET Int  BY <5>2
        <5>. QED  BY <5>2, <5>3, <5>4
      <4>2. PICK x \in Alerts(s) : \A y \in Alerts(s) : x <= y  BY <4>1, LeastOf
      <4>3. x > k
        <5>1. ~(x \in 1 .. k)
          <6>1. x \in 1 .. k => s[x] = p[x]  BY <1>2, FirstOf DEF n
          <6>. QED  BY <1>2, <2>2, <6>1 DEF Alerts
        <5>. QED  BY <1>2, <4>1, <5>1
      <4>4. Alerts(SubSeq(s, 1, x - 1)) # {}  BY <1>3, <4>1, <4>3
      <4>5. PICK y \in Alerts(SubSeq(s, 1, x - 1)) : TRUE  BY <4>4
      <4>6. x - 1 \in 0 .. n /\ x \in Int
        <5>1. x \in 1 .. n  BY <4>1
        <5>. QED  BY <1>1, <5>1
      <4>7. DOMAIN SubSeq(s, 1, x - 1) = 1 .. x - 1 /\ Begins(SubSeq(s, 1, x - 1), s)
        BY <4>6, FirstOf DEF n
      <4>8. y \in Alerts(s) /\ y \in 1 .. x - 1
        <5>. DEFINE b == SubSeq(s, 1, x - 1)
        <5>1. Begins(b, s) /\ y \in Alerts(b) /\ DOMAIN b = 1 .. x - 1  BY <4>5, <4>7
        <5>. HIDE DEF b
        <5>2. Alerts(b) \subseteq Alerts(s)  BY <5>1, AlertBegins
        <5>3. Alerts(b) \subseteq DOMAIN b  BY DEF Alerts
        <5>. QED  BY <5>1, <5>2, <5>3
      <4>. QED  BY <4>2, <4>6, <4>8
    <3>. QED  BY <2>2, <3>1 DEF Reassemble
  <2>. QED  BY <2>1, <2>2
<1>. HIDE DEF p
<1>6. ParseFlight(p) = ParseFlight(s)  BY <1>4, <1>5, SameFlight
<1>. QED  BY <1>6 DEF p

\* The first records of a server say what it says, or less.
LEMMA FirstSaysLess ==
  ASSUME NEW s, IsStream(s), OneAnswer(s), None # "fatal", NEW p, Begins(p, s),
         ~Failed(ParseFlight(p)), ~Failed(ParseFlight(s))
  PROVE  /\ ParseFlight(p).fatal => ParseFlight(s).fatal
         /\ ParseFlight(p).hello \in {None, ParseFlight(s).hello}
         /\ ParseFlight(p).keyExchange \in {None, ParseFlight(s).keyExchange}
<1>1. ASSUME NEW r, ~Failed(ParseFlight(r))
      PROVE  ParseFlight(r) = [fatal |-> Reassemble(r).alert = "fatal",
                               hello |-> HelloOf(Messages(r)),
                               keyExchange |-> ExchangeOf(Messages(r))]
  <2>1. Failed([error |-> "parse"])  BY DEF Failed
  <2>. QED  BY <1>1, <2>1, FlightRead
<1>2. /\ ParseFlight(p).fatal = (Reassemble(p).alert = "fatal")
      /\ ParseFlight(p).hello = HelloOf(Messages(p))
      /\ ParseFlight(p).keyExchange = ExchangeOf(Messages(p))
  BY <1>1
<1>3. /\ ParseFlight(s).fatal = (Reassemble(s).alert = "fatal")
      /\ ParseFlight(s).hello = HelloOf(Messages(s))
      /\ ParseFlight(s).keyExchange = ExchangeOf(Messages(s))
  BY <1>1
<1>4. Begins(Messages(p), Messages(s))  BY MessagesBegin
<1>5. /\ HelloOf(Messages(p)) \in {None, HelloOf(Messages(s))}
      /\ ExchangeOf(Messages(p)) \in {None, ExchangeOf(Messages(s))}
  BY <1>4, AnswerBegins
<1>6. Reassemble(p).alert = "fatal" => Reassemble(s).alert = "fatal"
  BY AlertBegins
<1>. QED  BY <1>2, <1>3, <1>5, <1>6

-----------------------------------------------------------------------------
(***************************************************************************)
(* The read loop: what it has at every turn is made of the first records.  *)
(***************************************************************************)
\* An error of the connection, not of what came over it.
NotRead(o) == Failed(o) /\ o.error # "parse"

\* It is a failure, and not one of the parser unless it says so.
LEMMA ErrorFails == \A e : Failed([error |-> e]) /\ (e # "parse" => NotRead([error |-> e]))
BY DEF Failed, NotRead

\* While a probe goes on, what it has read is not a whole flight yet; once it is
\* over, its outcome is an error or what the records it has read say.
FlightInvariant ==
  \/ /\ stage \in {"hello", "marshalled"} /\ script \in Scripts
     /\ received = 0 /\ reading /\ outcome = None
  \/ /\ stage = "probe" /\ script \in Scripts /\ received \in Nat
     /\ reading => ~FlightIsComplete(SplitRecords(script, received))
     /\ ~reading => NotRead(outcome) \/ outcome = ParseFlight(SplitRecords(script, received))
  \/ stage \in {"established", "draining", "done"} /\ ~reading /\ NotRead(outcome)

\* No record is there before the first unit.
LEMMA NothingRead ==
  ASSUME NEW s \in Scripts
  PROVE  ~FlightIsComplete(SplitRecords(s, 0))
<1>1. IsStream(s)  BY ScriptsAssumption
<1>2. PICK k \in 0 .. Len(s) : SplitRecords(s, 0) = SubSeq(s, 1, k) /\ k = 0  BY <1>1, SplitIs
<1>3. SubSeq(s, 1, 0) = <<>>  BY SubSeqEmpty
<1>. QED  BY <1>2, <1>3, NothingIncomplete

\* What a turn of the read loop does with what it has read.
LEMMA TurnOfLoop ==
  ASSUME FlightInvariant, stage = "probe", reading, ReadChunk \/ ReadError, stage' = stage
  PROVE  /\ FlightInvariant'
         /\ script' = script /\ script \in Scripts /\ received' \in Nat
         /\ ~reading' => \/ received' = 0
                        \/ outcome' = ParseFlight(SplitRecords(script, received'))
<1>1. script \in Scripts /\ received \in Nat /\ ~FlightIsComplete(SplitRecords(script, received))
  BY DEF FlightInvariant
<1>2. Units(script) \in Nat  BY <1>1, ScriptsAssumption, SplitIs
<1>3. CASE ReadChunk
  <2>1. PICK n \in received + 1 .. Units(script) :
          /\ received' = n
          /\ IF FlightIsComplete(SplitRecords(script, n))
               THEN Conclude(n) ELSE UNCHANGED <<reading, outcome>>
    BY <1>3 DEF ReadChunk
  <2>2. n \in Nat /\ n # 0 /\ script' = script  BY <1>1, <1>2, <1>3, <2>1 DEF ReadChunk
  <2>3. CASE FlightIsComplete(SplitRecords(script, n))
    <3>1. reading' = FALSE /\ outcome' = ParseFlight(SplitRecords(script, n))
      BY <2>1, <2>2, <2>3 DEF Conclude
    <3>. QED  BY <1>1, <2>1, <2>2, <3>1 DEF FlightInvariant
  <2>4. CASE ~FlightIsComplete(SplitRecords(script, n))
    BY <1>1, <2>1, <2>2, <2>4 DEF FlightInvariant
  <2>. QED  BY <2>3, <2>4
<1>4. CASE ReadError
  <2>1. PICK n \in received .. Units(script) : received' = n /\ Conclude(n)
    BY <1>4 DEF ReadError
  <2>2. n \in Nat /\ script' = script /\ ~reading'  BY <1>1, <1>2, <1>4, <2>1 DEF ReadError, Conclude
  <2>3. outcome' = IF n = 0 THEN [error |-> "no_answer"] ELSE ParseFlight(SplitRecords(script, n))
    BY <2>1 DEF Conclude
  <2>4. NotRead(outcome') \/ outcome' = ParseFlight(SplitRecords(script, n))  BY <2>3, ErrorFails
  <2>. QED  BY <1>1, <2>1, <2>2, <2>3, <2>4 DEF FlightInvariant
<1>. QED  BY <1>3, <1>4

\* The inductive invariant of the read loop.
LEMMA FlightInvariantHolds == HandshakeSpec => []FlightInvariant
<1>1. HandshakeInit \/ (SessionInit /\ hello = None /\ record = None) => FlightInvariant
  BY ErrorFails DEF HandshakeInit, Init, SessionInit, FlightInvariant
<1>2. FlightInvariant /\ [HandshakeNext]_<<allVars, helloVars>> => FlightInvariant'
  <2>. SUFFICES ASSUME FlightInvariant, [HandshakeNext]_<<allVars, helloVars>>
                PROVE  FlightInvariant'
    OBVIOUS
  <2>1. CASE MarshalHello  BY <2>1 DEF MarshalHello, vars, FlightInvariant
  <2>2. CASE HandshakeFails
    <3>1. script \in Scripts /\ received = 0  BY <2>2 DEF HandshakeFails, FlightInvariant
    <3>. QED  BY <2>2, <3>1, ErrorFails DEF HandshakeFails, FlightInvariant
  <2>3. CASE WriteHello
    <3>1. script \in Scripts /\ received = 0 /\ reading  BY <2>3 DEF WriteHello, FlightInvariant
    <3>2. ~FlightIsComplete(SplitRecords(script, 0))  BY <3>1, NothingRead
    <3>. QED  BY <2>3, <3>1, <3>2 DEF WriteHello, vars, FlightInvariant
  <2>4. CASE stage = "probe" /\ Next /\ UNCHANGED earlyVars
    <3>1. stage' = stage  BY <2>4 DEF earlyVars
    <3>2. CASE ReadChunk \/ ReadError
      <4>1. reading  BY <3>2 DEF ReadChunk, ReadError
      <4>. QED  BY <2>4, <3>1, <3>2, <4>1, TurnOfLoop
    <3>3. CASE Finished  BY <3>1, <3>3 DEF Finished, vars, FlightInvariant
    <3>. QED  BY <2>4, <3>2, <3>3 DEF Next
  <2>5. CASE OlderVersion \/ WriteRequest \/ WriteFails \/ DrainChunk \/ DrainEnds \/ Examined
    <3>1. /\ stage \in {"established", "draining", "done"}
          /\ stage' \in {"established", "draining", "done"}
          /\ reading' = reading /\ outcome' = outcome
      BY <2>5 DEF OlderVersion, WriteRequest, WriteFails, DrainChunk, DrainEnds, Examine, Examined,
                  allVars, earlyVars, vars
    <3>2. ~reading /\ NotRead(outcome)  BY <3>1 DEF FlightInvariant
    <3>. QED  BY <3>1, <3>2 DEF FlightInvariant, NotRead, Failed
  <2>6. CASE UNCHANGED <<allVars, helloVars>>
    BY <2>6 DEF FlightInvariant, allVars, earlyVars, vars
  <2>. QED  BY <2>1, <2>2, <2>3, <2>4, <2>5, <2>6 DEF HandshakeNext, ConnectionNext
<1>. QED  BY <1>1, <1>2, PTL DEF HandshakeSpec

-----------------------------------------------------------------------------
(***************************************************************************)
(* The theorems about the flight of a handshake.                           *)
(***************************************************************************)
\* handshake (probe.go:280-289): wherever an answer is cut off, by a deadline or
\* by a close and however its bytes come, what is made of it is what the server
\* said or less: no refusal, hello or key exchange that it did not send.
THEOREM AnswerNeverInventedHolds ==
  ASSUME \A s \in Scripts : OneAnswer(s)
  PROVE  HandshakeSpec => []AnswerNeverInvented
<1>1. FlightInvariant => AnswerNeverInvented
  <2>. SUFFICES ASSUME FlightInvariant, ~reading, ~Failed(outcome), ~Failed(Said)
                PROVE  /\ outcome.fatal => Said.fatal
                       /\ outcome.hello \in {None, Said.hello}
                       /\ outcome.keyExchange \in {None, Said.keyExchange}
    BY DEF AnswerNeverInvented
  <2>1. /\ script \in Scripts /\ received \in Nat
        /\ outcome = ParseFlight(SplitRecords(script, received))
    BY DEF FlightInvariant, NotRead
  <2>2. IsStream(script) /\ OneAnswer(script) /\ None # "fatal"  BY <2>1, ScriptsAssumption
  <2>3. PICK k \in 0 .. Len(script) : SplitRecords(script, received) = SubSeq(script, 1, k)
    BY <2>1, <2>2, SplitIs
  <2>4. Begins(SplitRecords(script, received), script)  BY <2>2, <2>3, FirstOf
  <2>5. Said = ParseFlight(script)  BY DEF Said
  <2>. QED  BY <2>1, <2>2, <2>4, <2>5, FirstSaysLess
<1>. QED  BY <1>1, FlightInvariantHolds, PTL

\* FlightIsComplete and handshake (server_response.go:84-117, probe.go:265-278):
\* however the bytes are cut into reads, a loop that ends by itself ends with all
\* that a server said whose messages are read as it means them and which adds
\* nothing but alerts to a flight it has ended.
THEOREM AnswerWholeHolds ==
  ASSUME \A s \in Scripts : Understood(s) /\ LastWord(s)
  PROVE  HandshakeSpec => AnswerWhole
<1>1. FlightInvariant /\ [HandshakeNext]_<<allVars, helloVars>>
        => [reading /\ ~reading' /\ FlightIsComplete(SplitRecords(script, received'))
              => outcome' = Said]_vars
  <2>. SUFFICES ASSUME FlightInvariant, [HandshakeNext]_<<allVars, helloVars>>,
                       reading, ~reading', FlightIsComplete(SplitRecords(script, received'))
                PROVE  outcome' = Said
    OBVIOUS
  <2>1. stage = "probe" /\ stage' = stage /\ (ReadChunk \/ ReadError)
    <3>1. CASE MarshalHello  BY <3>1 DEF MarshalHello, vars
    <3>2. CASE WriteHello  BY <3>2 DEF WriteHello, vars
    <3>3. CASE HandshakeFails
      <4>1. script \in Scripts /\ received' = 0  BY <3>3 DEF HandshakeFails, FlightInvariant
      <4>. QED  BY <4>1, NothingRead
    <3>4. CASE stage = "probe" /\ Next /\ UNCHANGED earlyVars
      BY <3>4 DEF Next, Finished, earlyVars
    <3>5. CASE OlderVersion \/ WriteRequest \/ WriteFails \/ DrainChunk \/ DrainEnds \/ Examined
      BY <3>5 DEF OlderVersion, WriteRequest, WriteFails, DrainChunk, DrainEnds, Examine, Examined,
                  allVars, vars
    <3>6. CASE UNCHANGED <<allVars, helloVars>>  BY <3>6 DEF allVars, vars
    <3>. QED  BY <3>1, <3>2, <3>3, <3>4, <3>5, <3>6 DEF HandshakeNext, ConnectionNext
  <2>2. /\ script \in Scripts /\ received' \in Nat
        /\ received' = 0 \/ outcome' = ParseFlight(SplitRecords(script, received'))
    BY <2>1, TurnOfLoop
  <2>3. received' # 0  BY <2>2, NothingRead
  <2>4. IsStream(script) /\ Understood(script) /\ LastWord(script)  BY <2>2, ScriptsAssumption
  <2>. DEFINE n == received'
  <2>5. n \in Nat  BY <2>2
  <2>6. \A i \in Nat : \E k \in 0 .. Len(script) : SplitRecords(script, i) = SubSeq(script, 1, k)
    BY <2>4, SplitIs
  <2>7. PICK k \in 0 .. Len(script) : SplitRecords(script, n) = SubSeq(script, 1, k)
    <3>. HIDE DEF n
    <3>. QED  BY <2>5, <2>6
  <2>8. FlightIsComplete(SubSeq(script, 1, k))  BY <2>7
  <2>9. ParseFlight(SubSeq(script, 1, k)) = ParseFlight(script)  BY <2>4, <2>8, EndIsAll
  <2>. QED  BY <2>2, <2>3, <2>7, <2>9 DEF Said
<1>. QED  BY <1>1, FlightInvariantHolds, PTL DEF HandshakeSpec, AnswerWhole

\* FlightIsComplete (server_response.go:84-92): the loop does not wait for more of
\* a server whose messages are read as it means them and which has sent a whole
\* flight, with the end that such a server gives it: no read timeout is paid.
THEOREM NoTimeoutForWholeFlightHolds ==
  ASSUME \A s \in Scripts : Understood(s) /\ Ends(s)
  PROVE  HandshakeSpec => []NoTimeoutForWholeFlight
<1>1. FlightInvariant => NoTimeoutForWholeFlight
  <2>. SUFFICES ASSUME FlightInvariant, ~Failed(Said), reading, received = Units(script)
                PROVE  FALSE
    BY DEF NoTimeoutForWholeFlight
  <2>1. /\ script \in Scripts /\ received \in Nat
        /\ received = 0 \/ ~FlightIsComplete(SplitRecords(script, received))
    BY DEF FlightInvariant
  <2>2. ~FlightIsComplete(SplitRecords(script, received))  BY <2>1, NothingRead
  <2>3. IsStream(script) /\ Understood(script) /\ Ends(script)  BY <2>1, ScriptsAssumption
  <2>4. SplitRecords(script, received) = script  BY <2>1, <2>3, SplitIs
  <2>5. Begins(script, script)
    <3>1. PICK k \in 0 .. Len(script) : SplitRecords(script, received) = SubSeq(script, 1, k)
      BY <2>1, <2>3, SplitIs
    <3>2. Begins(SubSeq(script, 1, k), script)  BY <2>3, <3>1, FirstOf
    <3>. QED  BY <2>4, <3>1, <3>2
  <2>6. Ended(script)  BY <2>2, <2>3 DEF Ends, Said
  <2>7. FlightIsComplete(script)  BY <2>3, <2>5, <2>6, EndedIsComplete
  <2>. QED  BY <2>2, <2>4, <2>7
<1>. QED  BY <1>1, FlightInvariantHolds, PTL

\* What ParseFlight makes of a flight: an error for one of three reasons.
LEMMA FlightFails ==
  ASSUME NEW records, NEW a, a = Messages(records)
  PROVE  IF Failed(ParseFlight(records))
           THEN \/ a = <<>>
                \/ \E i \in HellosIn(a) : HelloAt(a, i) = None
                \/ \E i \in ExchangesIn(a) : ExchangeAt(a, i) = None
           ELSE \A i \in HellosIn(a) : HelloAt(a, i) # None
<1>. DEFINE failing == \/ a = <<>> /\ Reassemble(records).alert = None
                       \/ \E i \in HellosIn(a) : HelloAt(a, i) = None
                       \/ \E i \in ExchangesIn(a) : ExchangeAt(a, i) = None
            read == [fatal |-> Reassemble(records).alert = "fatal",
                     hello |-> HelloOf(a), keyExchange |-> ExchangeOf(a)]
<1>1. ParseFlight(records) = IF failing THEN [error |-> "parse"] ELSE read
  BY DEF ParseFlight, Messages, Reassemble, HellosIn, ExchangesIn, HelloAt, ExchangeAt, HelloOf,
         ExchangeOf
<1>2. Failed([error |-> "parse"]) /\ ~Failed(read)
  <2>1. "fatal" \in DOMAIN read  OBVIOUS
  <2>. HIDE DEF read
  <2>. QED  BY <2>1 DEF Failed
<1>. HIDE DEF read
<1>. QED  BY <1>1, <1>2

\* ParseServerHello and ParseServerKeyExchange (server_response.go:178-356): if
\* each message is read as the server means it, a key exchange by the hello before
\* it, the flight that is handed back, whole or cut off, is as it was meant, and
\* it is given up as unreadable only when one of its messages is.
THEOREM AnswerAsMeantHolds ==
  ASSUME \A s \in Scripts : Understood(s)
  PROVE  HandshakeSpec => []AnswerAsMeant
<1>1. FlightInvariant => AnswerAsMeant
  <2>. DEFINE said == SplitHandshake(Reassemble(script).handshake)
              meant(type) == {e.meant : e \in {said[i] : i \in {j \in DOMAIN said :
                                                                said[j].type = type}}}
              got == SplitRecords(script, received)
              a == Messages(got)
              b == Messages(script)
  <2>. SUFFICES ASSUME FlightInvariant, ~reading
                PROVE  IF Failed(outcome)
                         THEN outcome.error = "parse" =>
                                \/ None \in meant("server_hello") \cup meant("server_key_exchange")
                                \/ SplitHandshake(Reassemble(got).handshake) = <<>>
                         ELSE /\ outcome.hello # None => outcome.hello \in meant("server_hello")
                              /\ outcome.keyExchange # None =>
                                   outcome.keyExchange \in meant("server_key_exchange")
    BY DEF AnswerAsMeant
  <2>1. CASE NotRead(outcome)  BY <2>1 DEF NotRead
  <2>2. CASE ~NotRead(outcome)
    <3>1. script \in Scripts /\ received \in Nat /\ outcome = ParseFlight(got)
      BY <2>2 DEF FlightInvariant
    <3>2. IsStream(script) /\ Understood(script)  BY <3>1, ScriptsAssumption
    <3>3. PICK k \in 0 .. Len(script) : got = SubSeq(script, 1, k)  BY <3>1, <3>2, SplitIs
    <3>4. Begins(got, script)  BY <3>2, <3>3, FirstOf
    <3>. HIDE DEF got
    <3>5. Begins(a, b)  BY <3>2, <3>4, MessagesBegin
    <3>6. said = b /\ SplitHandshake(Reassemble(got).handshake) = a  BY DEF Messages, Reassemble
    <3>. HIDE DEF a, b
    <3>7. /\ \A i \in HellosIn(a) : i \in HellosIn(b) /\ HelloAt(a, i) = b[i].meant
          /\ \A i \in ExchangesIn(a) :
               /\ i \in ExchangesIn(b)
               /\ \/ ExchangeAt(a, i) = b[i].meant
                  \/ \E h \in HellosIn(a) : b[h].meant = None
      BY <3>2, <3>5, FirstUnderstood DEF b
    <3>8. /\ \A i \in HellosIn(b) : b[i].meant \in meant("server_hello")
          /\ \A i \in ExchangesIn(b) : b[i].meant \in meant("server_key_exchange")
      BY <3>6 DEF HellosIn, ExchangesIn
    <3>. HIDE DEF said, meant
    <3>9. CASE Failed(outcome)
      <4>1. \/ a = <<>>
            \/ \E i \in HellosIn(a) : HelloAt(a, i) = None
            \/ \E i \in ExchangesIn(a) : ExchangeAt(a, i) = None
        BY <3>1, <3>9, FlightFails DEF a
      <4>. QED  BY <3>6, <3>7, <3>8, <3>9, <4>1
    <3>10. CASE ~Failed(outcome)
      <4>1. \A i \in HellosIn(a) : HelloAt(a, i) # None  BY <3>1, <3>10, FlightFails DEF a
      <4>2. outcome.hello = HelloOf(a) /\ outcome.keyExchange = ExchangeOf(a)
        BY <3>1, <3>10, FlightRead, ErrorFails DEF a
      <4>3. PICK m \in Nat : DOMAIN a = 1 .. m  BY <3>5 DEF Begins
      <4>4. outcome.hello # None => outcome.hello \in meant("server_hello")
        <5>. DEFINE i == Max(HellosIn(a))
        <5>1. HellosIn(a) \subseteq 1 .. m  BY <4>3 DEF HellosIn
        <5>2. HellosIn(a) # {} => i \in HellosIn(a)  BY <5>1, LastAmong
        <5>3. HellosIn(a) # {} => HelloOf(a) = HelloAt(a, i)  BY DEF HelloOf
        <5>4. HellosIn(a) = {} => HelloOf(a) = None  BY DEF HelloOf
        <5>. HIDE DEF i
        <5>. QED  BY <3>7, <3>8, <4>2, <5>2, <5>3, <5>4
      <4>5. outcome.keyExchange # None => outcome.keyExchange \in meant("server_key_exchange")
        <5>. DEFINE i == Max(ExchangesIn(a))
        <5>1. ExchangesIn(a) \subseteq 1 .. m  BY <4>3 DEF ExchangesIn
        <5>2. ExchangesIn(a) # {} => i \in ExchangesIn(a)  BY <5>1, LastAmong
        <5>3. ExchangesIn(a) # {} => ExchangeOf(a) = ExchangeAt(a, i)  BY DEF ExchangeOf
        <5>4. ExchangesIn(a) = {} => ExchangeOf(a) = None  BY DEF ExchangeOf
        <5>5. \A h \in HellosIn(a) : b[h].meant # None  BY <3>7, <4>1
        <5>. HIDE DEF i
        <5>. QED  BY <3>7, <3>8, <4>2, <5>2, <5>3, <5>4, <5>5
      <4>. QED  BY <3>10, <4>4, <4>5
    <3>. QED  BY <3>9, <3>10
  <2>. QED  BY <2>1, <2>2
<1>. QED  BY <1>1, FlightInvariantHolds, PTL

-----------------------------------------------------------------------------
(***************************************************************************)
(* inspectEarlyData: the loop over the records of a session.               *)
(***************************************************************************)
\* Induction up to n, by the least number that is missing.
LEMMA UpTo ==
  ASSUME NEW n \in Nat, NEW P, 0 \in P, \A i \in 1 .. n : i - 1 \in P => i \in P
  PROVE  \A i \in 0 .. n : i \in P
<1>. DEFINE missing == (0 .. n) \ P
<1>. SUFFICES ASSUME missing # {} PROVE FALSE  OBVIOUS
<1>1. missing \in SUBSET Int /\ IsFiniteSet(missing)
  <2>1. IsFiniteSet(0 .. n)  BY FS_Interval
  <2>2. missing \subseteq 0 .. n  OBVIOUS
  <2>. HIDE DEF missing
  <2>3. IsFiniteSet(missing)  BY <2>1, <2>2, FS_Subset
  <2>. QED  BY <2>2, <2>3
<1>2. PICK x \in missing : \A y \in missing : x <= y
  <2>. HIDE DEF missing
  <2>. QED  BY <1>1, LeastOf
<1>3. x \in 1 .. n  OBVIOUS
<1>4. x - 1 \notin missing
  <2>. HIDE DEF missing
  <2>. QED  BY <1>2, <1>3
<1>5. x - 1 \in P  BY <1>3, <1>4
<1>. QED  BY <1>3, <1>5

\* The loop of inspectEarlyData: what it has after each record.
Turns(records) ==
  CHOOSE f : f = [i \in 0 .. Len(records) |-> IF i = 0 THEN NewInspection
                                              ELSE Inspect(f[i - 1], Numbered(records)[i])]

\* It has these after every record: the function that the definition names exists.
LEMMA TurnsTaken ==
  ASSUME NEW records, Len(records) \in Nat
  PROVE  /\ Turns(records)[0] = NewInspection
         /\ \A i \in 1 .. Len(records) :
              Turns(records)[i] = Inspect(Turns(records)[i - 1], Numbered(records)[i])
<1>. DEFINE n == Len(records)
            turn(s, i) == Inspect(s, Numbered(records)[i])
            P == {m \in 0 .. n : \E f : f = [i \in 0 .. m |-> IF i = 0 THEN NewInspection
                                                               ELSE turn(f[i - 1], i)]}
<1>. HIDE DEF turn, n
<1>0. n \in Nat  BY DEF n
<1>1. 0 \in P
  <2>. DEFINE f == [i \in 0 .. 0 |-> NewInspection]
  <2>1. f = [i \in 0 .. 0 |-> IF i = 0 THEN NewInspection ELSE turn(f[i - 1], i)]
    OBVIOUS
  <2>2. 0 \in 0 .. n  BY <1>0
  <2>. HIDE DEF f
  <2>. QED  BY <2>1, <2>2
<1>2. ASSUME NEW m \in 1 .. n, m - 1 \in P PROVE m \in P
  <2>1. PICK f : f = [i \in 0 .. m - 1 |-> IF i = 0 THEN NewInspection ELSE turn(f[i - 1], i)]
    BY <1>2
  <2>. DEFINE g == [i \in 0 .. m |-> IF i = m THEN turn(f[m - 1], m) ELSE f[i]]
  <2>2. g = [i \in 0 .. m |-> IF i = 0 THEN NewInspection ELSE turn(g[i - 1], i)]
    <3>. SUFFICES ASSUME NEW i \in 0 .. m
                  PROVE  g[i] = IF i = 0 THEN NewInspection ELSE turn(g[i - 1], i)
      OBVIOUS
    <3>1. CASE i = m
      <4>1. g[m - 1] = f[m - 1]  BY <1>0, <1>2
      <4>. QED  BY <1>0, <1>2, <3>1, <4>1
    <3>2. CASE i # m
      <4>1. i \in 0 .. m - 1 /\ g[i] = f[i]  BY <1>0, <1>2, <3>2
      <4>2. i # 0 => g[i - 1] = f[i - 1]  BY <1>0, <1>2, <3>2
      <4>3. f[i] = IF i = 0 THEN NewInspection ELSE turn(f[i - 1], i)  BY <2>1, <4>1
      <4>. QED  BY <4>1, <4>2, <4>3
    <3>. QED  BY <3>1, <3>2
  <2>3. m \in 0 .. n  BY <1>0
  <2>. QED  BY <2>2, <2>3
<1>3. n \in P
  <2>. HIDE DEF P
  <2>1. \A i \in 0 .. n : i \in P  BY <1>0, <1>1, <1>2, UpTo
  <2>. QED  BY <1>0, <2>1
<1>4. Turns(records) = [i \in 0 .. n |-> IF i = 0 THEN NewInspection
                                         ELSE turn(Turns(records)[i - 1], i)]
  BY <1>3 DEF Turns, turn, n
<1>. QED
  <2>. DEFINE f == Turns(records)
  <2>1. f = [i \in 0 .. n |-> IF i = 0 THEN NewInspection ELSE turn(f[i - 1], i)]  BY <1>4
  <2>. HIDE DEF f
  <2>2. f[0] = NewInspection /\ \A i \in 1 .. n : f[i] = turn(f[i - 1], i)  BY <1>0, <2>1
  <2>. QED  BY <2>2 DEF f, turn, n

\* What inspectEarlyData concludes from where its loop ends.
LEMMA InspectionEnds ==
  ASSUME NEW records, NEW secrets, NEW suite, NEW last, last = Turns(records)[Len(records)]
  PROVE  InspectEarlyData(records, secrets, suite)
           = IF ~({"handshake", "application"} \subseteq secrets) \/ suite \notin OpenableSuites
               THEN Undetermined
             ELSE IF last.returned # None THEN last.returned
             ELSE IF last.switched THEN Determined(None)
             ELSE Undetermined
BY DEF InspectEarlyData, Turns

EpochKeys == {"handshake", "application"}

IsInspection(s) ==
  s \in [key : EpochKeys, seq : [EpochKeys -> Nat], switched : BOOLEAN, returned : {s.returned}]

\* The tickets that settle the question, and how the first of them does.
Opinions(r) ==
  {i \in DOMAIN Spelled(r) : /\ r.content = "handshake"
                                 /\ Spelled(r)[i].type = "new_session_ticket"
                                 /\ EarlyDataFromTicket(Spelled(r)[i]) # None}

Settled(size) == Determined(IF size = 0 THEN None ELSE size)

Opinion(r) == EarlyDataFromTicket(Spelled(r)[Min(Opinions(r))])

Finishes(r) ==
  /\ r.content = "handshake"
  /\ \E i \in DOMAIN Spelled(r) : Spelled(r)[i].type = "finished"

\* Before the first record.
LEMMA NewIs == IsInspection(NewInspection) /\ NewInspection.returned = None
               /\ NewInspection.key = "handshake" /\ NewInspection.switched = FALSE
               /\ \A k \in EpochKeys : NewInspection.seq[k] = 0
<1>1. NewInspection.seq \in [EpochKeys -> Nat] /\ \A k \in EpochKeys : NewInspection.seq[k] = 0
  BY DEF NewInspection, EpochKeys
<1>. QED  BY <1>1 DEF IsInspection, NewInspection, EpochKeys

\* Walking on changes the number under the key in use, and nothing else.
LEMMA WalkIs ==
  ASSUME NEW s, IsInspection(s), NEW n, NEW t, t = Walk(s, n)
  PROVE  /\ IsInspection(t)
         /\ t.key = s.key /\ t.switched = s.switched /\ t.returned = s.returned
         /\ \A k \in EpochKeys :
              t.seq[k] = IF Decrypts(s, n) /\ k = s.key THEN s.seq[k] + 1 ELSE s.seq[k]
<1>1. s.key \in EpochKeys /\ s.seq \in [EpochKeys -> Nat]  BY DEF IsInspection
<1>2. CASE ~Decrypts(s, n)  BY <1>2 DEF Walk
<1>3. CASE Decrypts(s, n)
  <2>. DEFINE q == [s.seq EXCEPT ![s.key] = @ + 1]
  <2>1. t = [s EXCEPT !.seq = q]  BY <1>3 DEF Walk
  <2>2. q \in [EpochKeys -> Nat]
        /\ \A k \in EpochKeys : q[k] = IF k = s.key THEN s.seq[k] + 1 ELSE s.seq[k]
    BY <1>1
  <2>. HIDE DEF q
  <2>3. IsInspection(t) /\ t.key = s.key /\ t.switched = s.switched /\ t.returned = s.returned
        /\ t.seq = q
    BY <2>1, <2>2 DEF IsInspection
  <2>. QED  BY <1>3, <2>2, <2>3
<1>. QED  BY <1>2, <1>3

\* Changing the key keeps the numbers.
LEMMA SwitchIs ==
  ASSUME NEW s, IsInspection(s), NEW t, t = Switch(s)
  PROVE  /\ IsInspection(t)
         /\ t.key = "application" /\ t.switched = TRUE
         /\ t.returned = s.returned /\ t.seq = s.seq
BY DEF IsInspection, Switch, EpochKeys

\* What the messages of a record change: the key, and what is returned.
LEMMA MessagesRead ==
  ASSUME NEW s, IsInspection(s), NEW r, NEW t, t = ReadMessages(s, r)
  PROVE  /\ IsInspection(t) /\ t.seq = s.seq
         /\ t.returned = IF Opinions(r) = {} THEN s.returned ELSE Settled(Opinion(r))
         /\ IF Finishes(r) THEN t.key = (IF s.switched THEN s.key ELSE "application") /\ t.switched
                                ELSE t.key = s.key /\ t.switched = s.switched
<1>. DEFINE messages == IF r.content = "handshake" THEN Spelled(r) ELSE <<>>
            tickets == {i \in DOMAIN messages : /\ messages[i].type = "new_session_ticket"
                                                /\ EarlyDataFromTicket(messages[i]) # None}
            finishes == \E i \in DOMAIN messages : messages[i].type = "finished"
            next == IF ~s.switched /\ finishes THEN Switch(s) ELSE s
            size == EarlyDataFromTicket(messages[Min(tickets)])
<1>1. t = IF tickets = {} THEN next
          ELSE [next EXCEPT !.returned = Determined(IF size = 0 THEN None ELSE size)]
  BY DEF ReadMessages
<1>2. tickets = Opinions(r)
  <2>1. DOMAIN <<>> = {}  OBVIOUS
  <2>. QED  BY <2>1 DEF Opinions
<1>3. finishes <=> Finishes(r)
  <2>1. DOMAIN <<>> = {}  OBVIOUS
  <2>. QED  BY <2>1 DEF Finishes
<1>4. tickets # {} => size = Opinion(r)
  <2>1. tickets # {} => r.content = "handshake"  BY <1>2 DEF Opinions
  <2>2. r.content = "handshake" => messages = Spelled(r)  OBVIOUS
  <2>. HIDE DEF tickets, messages
  <2>. QED  BY <1>2, <2>1, <2>2 DEF Opinion
<1>. HIDE DEF tickets, finishes, size, messages
<1>5. /\ IsInspection(next) /\ next.returned = s.returned /\ next.seq = s.seq
      /\ IF Finishes(r) THEN next.key = (IF s.switched THEN s.key ELSE "application") /\ next.switched
                             ELSE next.key = s.key /\ next.switched = s.switched
  <2>1. CASE ~s.switched /\ finishes
    <3>1. next = Switch(s)  BY <2>1
    <3>. QED  BY <1>3, <2>1, <3>1, SwitchIs
  <2>2. CASE ~(~s.switched /\ finishes)
    <3>1. next = s  BY <2>2
    <3>. QED  BY <1>3, <2>2, <3>1
  <2>. QED  BY <2>1, <2>2
<1>. HIDE DEF next
<1>6. CASE tickets = {}  BY <1>1, <1>2, <1>5, <1>6
<1>7. CASE tickets # {}
  <2>. DEFINE d == Settled(Opinion(r))
  <2>1. t = [next EXCEPT !.returned = d]  BY <1>1, <1>4, <1>7 DEF Settled
  <2>. HIDE DEF d
  <2>2. /\ IsInspection(t) /\ t.key = next.key /\ t.switched = next.switched
        /\ t.seq = next.seq /\ t.returned = d
    BY <1>5, <2>1 DEF IsInspection
  <2>. QED  BY <1>2, <1>5, <1>7, <2>2 DEF d
<1>. QED  BY <1>6, <1>7

\* What one turn returns: nothing yet, nothing that can be told, or an opinion.
LEMMA TurnReturns ==
  ASSUME NEW s, IsInspection(s), NEW n, NEW t, t = Inspect(s, n)
  PROVE  /\ IsInspection(t)
         /\ s.returned # None \/ n.record.type # "application_data" => t = s
         /\ s.returned = None /\ n.record.type = "application_data" =>
              \/ t.returned = Undetermined
              \/ t.returned = IF Opinions(n.record) = {} THEN None ELSE Settled(Opinion(n.record))
<1>. DEFINE w == Walk(s, n)
            retry == Switch(w)
            again == Walk(retry, n)
<1>1. IsInspection(w) /\ w.returned = s.returned  BY WalkIs
<1>. HIDE DEF w
<1>2. IsInspection(retry) /\ retry.returned = s.returned  BY <1>1, SwitchIs
<1>. HIDE DEF retry
<1>3. IsInspection(again) /\ again.returned = s.returned  BY <1>2, WalkIs
<1>. HIDE DEF again
<1>4. CASE s.returned # None \/ n.record.type # "application_data"  BY <1>4 DEF Inspect
<1>5. CASE s.returned = None /\ n.record.type = "application_data"
  <2>1. \/ t = ReadMessages(w, n.record)
        \/ t = [s EXCEPT !.returned = Undetermined]
        \/ t = ReadMessages(again, n.record)
    BY <1>5 DEF Inspect, w, retry, again
  <2>2. CASE t = [s EXCEPT !.returned = Undetermined]
    <3>. DEFINE d == Undetermined
    <3>1. t = [s EXCEPT !.returned = d]  BY <2>2
    <3>. HIDE DEF d
    <3>2. IsInspection(t) /\ t.returned = d  BY <3>1 DEF IsInspection
    <3>. QED  BY <1>5, <3>2 DEF d
  <2>3. CASE t = ReadMessages(w, n.record)  BY <1>1, <1>5, <2>3, MessagesRead
  <2>4. CASE t = ReadMessages(again, n.record)  BY <1>3, <1>5, <2>4, MessagesRead
  <2>. QED  BY <2>1, <2>2, <2>3, <2>4
<1>. QED  BY <1>4, <1>5

\* An encrypted record with an opinion.
Speaks(r) == r.type = "application_data" /\ Opinions(r) # {}

\* The loop returns nothing while nothing has been said, and then what the first
\* record with an opinion says, unless it gives up.
LEMMA FirstSpeaks ==
  ASSUME NEW records, NEW n \in Nat, n = Len(records), DOMAIN records = 1 .. n,
         \A i \in 1 .. n : Speaks(records[i]) => Settled(Opinion(records[i])) # None,
         NEW last, last = Turns(records)[n]
  PROVE  /\ IsInspection(last)
         /\ last.returned = None => \A i \in 1 .. n : ~Speaks(records[i])
         /\ last.returned \in {None, Undetermined}
              \/ \E i \in 1 .. n : /\ Speaks(records[i]) /\ \A h \in 1 .. i - 1 : ~Speaks(records[h])
                                  /\ last.returned = Settled(Opinion(records[i]))
<1>. DEFINE f == Turns(records)
            silent(m) == \A i \in 1 .. m : ~Speaks(records[i])
            first(m) == \E i \in 1 .. m : /\ Speaks(records[i]) /\ silent(i - 1)
                                         /\ f[m].returned = Settled(Opinion(records[i]))
            P == {m \in 0 .. n : /\ IsInspection(f[m]) /\ (f[m].returned = None => silent(m))
                                 /\ f[m].returned \in {None, Undetermined} \/ first(m)}
<1>1. /\ f[0] = NewInspection
      /\ \A i \in 1 .. n : f[i] = Inspect(f[i - 1], Numbered(records)[i])
  BY TurnsTaken
<1>2. \A i \in 1 .. n : Numbered(records)[i].record = records[i]  BY DEF Numbered
<1>. HIDE DEF f
<1>3. 0 \in P
  <2>1. IsInspection(f[0]) /\ f[0].returned = None  BY <1>1, NewIs
  <2>2. silent(0)  OBVIOUS
  <2>. QED  BY <2>1, <2>2
<1>4. ASSUME NEW m \in 1 .. n, m - 1 \in P PROVE m \in P
  <2>. DEFINE s == f[m - 1]
              t == f[m]
              r == records[m]
              number == Numbered(records)[m]
  <2>1. /\ IsInspection(s) /\ (s.returned = None => silent(m - 1))
        /\ s.returned \in {None, Undetermined} \/ first(m - 1)
    BY <1>4
  <2>2. t = Inspect(s, number) /\ number.record = r  BY <1>1, <1>2
  <2>3. m \in 0 .. n /\ \A i \in 1 .. m : i \in 1 .. m - 1 \/ i = m  OBVIOUS
  <2>. HIDE DEF number
  <2>4. /\ IsInspection(t)
        /\ s.returned # None \/ r.type # "application_data" => t = s
        /\ s.returned = None /\ r.type = "application_data" =>
             \/ t.returned = Undetermined
             \/ t.returned = IF Opinions(r) = {} THEN None ELSE Settled(Opinion(r))
    <3>. HIDE DEF s, t, r
    <3>1. /\ IsInspection(t)
          /\ s.returned # None \/ number.record.type # "application_data" => t = s
          /\ s.returned = None /\ number.record.type = "application_data" =>
               \/ t.returned = Undetermined
               \/ t.returned = IF Opinions(number.record) = {} THEN None
                                ELSE Settled(Opinion(number.record))
      <4>1. IsInspection(s) /\ t = Inspect(s, number)  BY <2>1, <2>2
      <4>2. IsInspection(t)  BY <4>1, TurnReturns
      <4>3. s.returned # None \/ number.record.type # "application_data" => t = s  BY <4>1, TurnReturns
      <4>4. s.returned = None /\ number.record.type = "application_data" =>
               \/ t.returned = Undetermined
               \/ t.returned = IF Opinions(number.record) = {} THEN None
                                ELSE Settled(Opinion(number.record))
           BY <4>1, TurnReturns
      <4>. QED  BY <4>2, <4>3, <4>4
    <3>. QED  BY <2>2, <3>1
  <2>5. CASE s.returned # None
    <3>1. t = s  BY <2>4, <2>5
    <3>2. first(m - 1) => first(m)
      <4>. SUFFICES ASSUME first(m - 1) PROVE first(m)  OBVIOUS
      <4>1. PICK i \in 1 .. m - 1 : /\ Speaks(records[i]) /\ silent(i - 1)
                                   /\ f[m - 1].returned = Settled(Opinion(records[i]))
        OBVIOUS
      <4>2. i \in 1 .. m  OBVIOUS
      <4>. QED  BY <3>1, <4>1, <4>2
    <3>. HIDE DEF first, silent
    <3>. QED  BY <2>1, <2>3, <2>4, <2>5, <3>1, <3>2
  <2>6. CASE s.returned = None /\ r.type # "application_data"
    <3>1. t = s /\ ~Speaks(r)  BY <2>4, <2>6 DEF Speaks
    <3>2. silent(m)  BY <2>1, <2>3, <2>6, <3>1
    <3>. HIDE DEF first, silent
    <3>. QED  BY <2>3, <2>4, <2>6, <3>1, <3>2
  <2>7. CASE s.returned = None /\ r.type = "application_data"
    <3>1. silent(m - 1)  BY <2>1, <2>7
    <3>2. CASE Opinions(r) = {}
      <4>1. silent(m)  BY <2>3, <3>1, <3>2 DEF Speaks
      <4>2. t.returned \in {None, Undetermined}  BY <2>4, <2>7, <3>2
      <4>. HIDE DEF first, silent
      <4>. QED  BY <2>3, <2>4, <4>1, <4>2
    <3>3. CASE Opinions(r) # {}
      <4>1. Speaks(r) /\ Settled(Opinion(r)) # None  BY <2>7, <3>3 DEF Speaks
      <4>2. t.returned = Undetermined \/ t.returned = Settled(Opinion(r))
        BY <2>4, <2>7, <3>3
      <4>3. Undetermined # None
        <5>1. Undetermined \in [determined : BOOLEAN, maxSize : Nat \cup {None}]  BY DEF Undetermined
        <5>. QED  BY <5>1, SessionsAssumption
      <4>4. t.returned = Settled(Opinion(r)) => first(m)  BY <3>1, <4>1
      <4>. HIDE DEF first, silent
      <4>. QED  BY <2>3, <2>4, <4>1, <4>2, <4>3, <4>4
    <3>. QED  BY <3>2, <3>3
  <2>. QED  BY <2>5, <2>6, <2>7
<1>5. n \in P
  <2>. HIDE DEF P
  <2>1. \A i \in 0 .. n : i \in P  BY <1>3, <1>4, UpTo
  <2>. QED  BY <2>1
<1>6. last = f[n]  BY DEF f
<1>. QED  BY <1>5, <1>6

-----------------------------------------------------------------------------
(***************************************************************************)
(* What the server's tickets say, and which of its records say it.         *)
(***************************************************************************)
\* A ticket that says once at most how much it allows is read as it is meant.
LEMMA TicketRead ==
  ASSUME NEW ticket, OneSize(ticket)
  PROVE  /\ EarlyDataFromTicket(ticket) = Allows(ticket)
         /\ Allows(ticket) # None => Allows(ticket) \in Nat
<1>. DEFINE e == ticket.extensions
            n == Len(e)
            telling == {i \in DOMAIN e : e[i].type \in {"early_data", "cut"}}
            sizes == {x.size : x \in {y \in ToSet(e) : y.type = "early_data"}}
            cut == \E x \in ToSet(e) : x.type = "cut"
<1>1. /\ e \in Seq(ToSet(e))
      /\ \A i, j \in DOMAIN e : e[i].type = "early_data" =>
           /\ e[i].size \in Nat
           /\ e[j].type = "early_data" => i = j
           /\ e[j].type = "cut" => j < i
  BY DEF OneSize
<1>2. n \in Nat /\ DOMAIN e = 1 .. n  BY <1>1, LenProperties
<1>3. EarlyDataFromTicket(ticket)
        = IF telling = {} \/ e[Min(telling)].type = "cut" THEN None ELSE e[Min(telling)].size
  BY DEF EarlyDataFromTicket
<1>4. Allows(ticket) = IF sizes = {} \/ cut THEN None ELSE CHOOSE size \in sizes : TRUE
  BY DEF Allows
<1>5. ToSet(e) = {e[i] : i \in DOMAIN e}  BY DEF ToSet
<1>. HIDE DEF e
<1>. HIDE DEF n
<1>6. telling # {} => Min(telling) \in telling /\ \A i \in telling : Min(telling) <= i
  <2>. SUFFICES ASSUME telling # {} PROVE Min(telling) \in telling /\ \A i \in telling : Min(telling) <= i
    OBVIOUS
  <2>1. telling \subseteq 1 .. n  BY <1>2
  <2>. HIDE DEF telling
  <2>. QED  BY <1>2, <2>1, FirstAmong
<1>7. CASE \E i \in DOMAIN e : e[i].type = "early_data"
  <2>1. PICK i \in DOMAIN e : e[i].type = "early_data"  BY <1>7
  <2>2. \A j \in DOMAIN e : /\ e[j].type = "early_data" => j = i
                            /\ e[j].type = "cut" => j < i
    BY <1>1, <2>1
  <2>3. sizes = {e[i].size} /\ e[i].size \in Nat
    <3>1. ASSUME NEW x \in ToSet(e), x.type = "early_data" PROVE x = e[i]
      <4>1. PICK j \in DOMAIN e : x = e[j]  BY <1>5
      <4>2. e[j].type = "early_data"  BY <3>1, <4>1
      <4>3. j = i  BY <2>2, <4>2
      <4>. QED  BY <4>1, <4>3
    <3>2. e[i] \in ToSet(e)  BY <1>5, <2>1
    <3>3. {y \in ToSet(e) : y.type = "early_data"} = {e[i]}  BY <2>1, <3>1, <3>2
    <3>. QED  BY <1>1, <2>1, <3>3
  <2>4. (CHOOSE size \in sizes : TRUE) = e[i].size  BY <2>3
  <2>5. cut <=> \E j \in DOMAIN e : e[j].type = "cut"  BY <1>5
  <2>6. i \in telling  BY <2>1
  <2>7. CASE cut
    <3>1. PICK j \in DOMAIN e : e[j].type = "cut"  BY <2>5, <2>7
    <3>2. j \in telling /\ j < i /\ i \in Int /\ j \in Int  BY <1>2, <2>1, <2>2, <3>1
    <3>3. Min(telling) \in telling /\ Min(telling) <= j /\ Min(telling) \in DOMAIN e
      <4>. HIDE DEF telling
      <4>1. Min(telling) \in telling /\ Min(telling) <= j  BY <1>6, <3>2
      <4>. QED  BY <4>1 DEF telling
    <3>. DEFINE k == Min(telling)
    <3>4. k \in telling /\ k <= j  BY <3>3
    <3>. HIDE DEF k
    <3>5. k \in 1 .. n /\ e[k].type \in {"early_data", "cut"}  BY <1>2, <3>4
    <3>6. k # i  BY <1>2, <3>2, <3>4, <3>5
    <3>7. e[k].type = "cut"
      <4>1. k \in DOMAIN e  BY <1>2, <3>5
      <4>2. e[k].type # "early_data"  BY <2>2, <3>6, <4>1
      <4>. QED  BY <3>5, <4>2
    <3>. QED  BY <1>3, <1>4, <2>7, <3>7 DEF k
  <2>8. CASE ~cut
    <3>. DEFINE k == Min(telling)
    <3>1. k \in telling
      <4>. HIDE DEF telling
      <4>. QED  BY <1>6, <2>6
    <3>. HIDE DEF k
    <3>2. k = i
      <4>1. k \in DOMAIN e /\ e[k].type \in {"early_data", "cut"}  BY <3>1
      <4>2. e[k].type = "early_data"  BY <2>5, <2>8, <4>1
      <4>. QED  BY <2>2, <4>1, <4>2
    <3>3. telling # {} /\ e[k].type # "cut"  BY <2>1, <2>6, <3>2
    <3>4. EarlyDataFromTicket(ticket) = e[i].size  BY <1>3, <3>2, <3>3 DEF k
    <3>5. Allows(ticket) = e[i].size  BY <1>4, <2>3, <2>4, <2>8
    <3>. QED  BY <2>3, <3>4, <3>5
  <2>. QED  BY <2>7, <2>8
<1>8. CASE ~\E i \in DOMAIN e : e[i].type = "early_data"
  <2>1. sizes = {}  BY <1>5, <1>8
  <2>2. \A i \in telling : e[i].type = "cut"  BY <1>8
  <2>3. telling = {} \/ e[Min(telling)].type = "cut"
    <3>. HIDE DEF telling
    <3>. QED  BY <1>6, <2>2
  <2>. QED  BY <1>3, <1>4, <2>1, <2>3
<1>. QED  BY <1>7, <1>8

\* The m messages of some pieces end at these places among them.
EndAt(pieces, m, places) ==
  /\ m \in Nat /\ places \in [1 .. m -> DOMAIN pieces]
  /\ DOMAIN SplitHandshake(pieces) = 1 .. m
  /\ \A j \in 1 .. m : /\ pieces[places[j]].last
                       /\ SplitHandshake(pieces)[j] = pieces[places[j]].message
  /\ \A i, j \in 1 .. m : i < j => places[i] < places[j]
  /\ \A c \in DOMAIN pieces : pieces[c].last => \E j \in 1 .. m : places[j] = c

\* The messages of finitely many pieces have such places.
LEMMA MessagesPlaced ==
  ASSUME NEW n \in Nat, NEW pieces, DOMAIN pieces = 1 .. n
  PROVE  \E m, places : EndAt(pieces, m, places)
<1>. DEFINE ends == {c \in DOMAIN pieces : pieces[c].last}
            m == Cardinality(ends)
            places == Ascending(ends)
<1>1. ends \subseteq 1 .. n /\ \A c : c \in ends <=> c \in 1 .. n /\ pieces[c].last  OBVIOUS
<1>2. SplitHandshake(pieces) = [j \in DOMAIN Extract(pieces, ends) |-> Extract(pieces, ends)[j].message]
  BY DEF SplitHandshake
<1>3. Extract(pieces, ends) = [j \in 1 .. m |-> pieces[places[j]]]  BY DEF Extract
<1>. HIDE DEF ends
<1>4. IsFiniteSet(ends) /\ ends \in SUBSET Int
  <2>1. IsFiniteSet(1 .. n)  BY FS_Interval
  <2>2. IsFiniteSet(ends)  BY <1>1, <2>1, FS_Subset
  <2>. QED  BY <1>1, <2>2
<1>5. /\ m \in Nat /\ places \in [1 .. m -> ends]
      /\ \A i, j \in 1 .. m : i < j => places[i] < places[j]
      /\ ToSet(places) = ends
  BY <1>4, AscendingFacts
<1>. HIDE DEF m, places
<1>6. \A c \in ends : \E j \in 1 .. m : places[j] = c  BY <1>5 DEF ToSet
<1>7. /\ DOMAIN SplitHandshake(pieces) = 1 .. m
      /\ \A j \in 1 .. m : SplitHandshake(pieces)[j] = pieces[places[j]].message
  BY <1>2, <1>3
<1>8. places \in [1 .. m -> 1 .. n] /\ \A j \in 1 .. m : pieces[places[j]].last
  BY <1>1, <1>5
<1>9. \A c \in 1 .. n : pieces[c].last => \E j \in 1 .. m : places[j] = c  BY <1>1, <1>6
<1>10. EndAt(pieces, m, places)  BY <1>5, <1>7, <1>8, <1>9 DEF EndAt
<1>. QED  BY <1>10

\* What is gathered is as long as this and comes from these places.
LaidOut(lists, size, places) ==
  /\ size \in Nat /\ places \in [1 .. size -> Cells(lists)]
  /\ DOMAIN Gathered(lists) = 1 .. size
  /\ \A k \in 1 .. size :
       /\ places[k][1] \in DOMAIN lists /\ places[k][2] \in Nat
       /\ places[k][2] \in DOMAIN lists[places[k][1]]
       /\ Gathered(lists)[k] = lists[places[k][1]][places[k][2]]
  /\ \A k, l \in 1 .. size :
       k < l => \/ places[k][1] < places[l][1]
                \/ places[k][1] = places[l][1] /\ places[k][2] < places[l][2]
  /\ \A i \in DOMAIN lists : \A c \in DOMAIN lists[i] : \E k \in 1 .. size : places[k] = <<i, c>>

\* Lists that are gathered are laid out so.
LEMMA GatheredPlaced ==
  ASSUME NEW n \in Nat, NEW lists, DOMAIN lists = 1 .. n,
         \A i \in 1 .. n : \E m \in Nat : DOMAIN lists[i] = 1 .. m
  PROVE  \E size, places : LaidOut(lists, size, places)
<1>. DEFINE cells == Cells(lists)
            size == Cardinality(cells)
            places == RowByRow(cells)
            key == Rowwise(cells)
<1>1. /\ IsFiniteSet(cells)
      /\ \A c \in cells : c[1] \in 1 .. n /\ c[2] \in Nat /\ c = <<c[1], c[2]>>
      /\ key \in [cells -> Int]
      /\ \A c, d \in cells : key[c] < key[d] <=> c[1] < d[1] \/ (c[1] = d[1] /\ c[2] < d[2])
  BY CellsKeyed
<1>2. size \in Nat /\ places \in [1 .. size -> cells] /\ ToSet(places) = cells
  BY RowsListed
<1>3. places = Arranged(cells, key)  BY DEF RowByRow, Rowwise
<1>4. \A i \in 1 .. n : \A c \in DOMAIN lists[i] : <<i, c>> \in cells  BY DEF Cells
<1>5. \A c \in cells : c[2] \in DOMAIN lists[c[1]]  BY DEF Cells
<1>6. Gathered(lists) = [k \in 1 .. size |-> lists[places[k][1]][places[k][2]]]  BY DEF Gathered
<1>. HIDE DEF cells, key
<1>7. ASSUME NEW c \in cells, NEW d \in cells, key[c] = key[d] PROVE c = d
  <2>1. ~(key[c] < key[d]) /\ ~(key[d] < key[c])  BY <1>1, <1>7
  <2>. QED  BY <1>1, <2>1
<1>8. \A k, l \in 1 .. size : k < l => key[places[k]] < key[places[l]]
  BY <1>1, <1>3, <1>7, ArrangedFacts
<1>. HIDE DEF size, places
<1>9. DOMAIN Gathered(lists) = 1 .. size  BY <1>6
<1>10. \A k \in 1 .. size :
         /\ places[k][1] \in 1 .. n /\ places[k][2] \in Nat
         /\ places[k][2] \in DOMAIN lists[places[k][1]]
         /\ Gathered(lists)[k] = lists[places[k][1]][places[k][2]]
  BY <1>1, <1>2, <1>5, <1>6
<1>11. \A k, l \in 1 .. size :
         k < l => \/ places[k][1] < places[l][1]
                  \/ places[k][1] = places[l][1] /\ places[k][2] < places[l][2]
  BY <1>1, <1>2, <1>8
<1>12. ASSUME NEW i \in 1 .. n, NEW c \in DOMAIN lists[i]
       PROVE  \E k \in 1 .. size : places[k] = <<i, c>>
  <2>1. <<i, c>> \in ToSet(places)  BY <1>2, <1>4
  <2>. QED  BY <1>2, <2>1 DEF ToSet
<1>13. size \in Nat /\ places \in [1 .. size -> Cells(lists)]  BY <1>2 DEF cells
<1>14. LaidOut(lists, size, places)  BY <1>9, <1>10, <1>11, <1>12, <1>13 DEF LaidOut
<1>. QED  BY <1>14

\* The end of a ticket with an opinion.
Telling(piece) ==
  /\ piece.last /\ piece.message.type = "new_session_ticket" /\ Allows(piece.message) # None

\* A record with an opinion is one of a session's own keys that begins with a
\* message, and its opinion is the first that its pieces tell.
LEMMA OpinionTold ==
  ASSUME NEW s, IsStream(s), TicketsClear(s), NEW i \in DOMAIN s, NEW r, r = s[i]
  PROVE  /\ Speaks(r) =>
              /\ r.content = "handshake" /\ r.key # "handshake" /\ r.misread = None
              /\ Opinion(r) \in Nat
              /\ \E c \in DOMAIN r.pieces :
                   /\ Telling(r.pieces[c]) /\ Allows(r.pieces[c].message) = Opinion(r)
                   /\ \A d \in DOMAIN r.pieces : Telling(r.pieces[d]) => c <= d
         /\ r.type = "application_data" /\ r.content = "handshake" /\ r.misread = None =>
              \A d \in DOMAIN r.pieces : Telling(r.pieces[d]) => Speaks(r)
<1>. DEFINE pieces == r.pieces
            n == Len(pieces)
            all == Spelled(r)
<1>1. n \in Nat /\ DOMAIN pieces = 1 .. n  BY LenProperties DEF IsStream
<1>2. r.misread = None => all = SplitHandshake(pieces)  BY DEF Spelled
<1>3. r.type = "application_data" /\ r.content = "handshake" =>
        \A j \in DOMAIN all : all[j].type = "new_session_ticket" =>
          /\ EarlyDataFromTicket(all[j]) = Allows(all[j])
          /\ Allows(all[j]) # None => Allows(all[j]) \in Nat /\ r.key # "handshake" /\ r.misread = None
  <2>. SUFFICES ASSUME r.type = "application_data", r.content = "handshake", NEW j \in DOMAIN all,
                       all[j].type = "new_session_ticket"
                PROVE  /\ EarlyDataFromTicket(all[j]) = Allows(all[j])
                       /\ Allows(all[j]) # None =>
                            Allows(all[j]) \in Nat /\ r.key # "handshake" /\ r.misread = None
    OBVIOUS
  <2>1. OneSize(all[j]) /\ (Allows(all[j]) # None => r.key # "handshake" /\ r.misread = None)
    BY DEF TicketsClear
  <2>2. /\ EarlyDataFromTicket(all[j]) = Allows(all[j])
        /\ Allows(all[j]) # None => Allows(all[j]) \in Nat
    BY <2>1, TicketRead
  <2>. QED  BY <2>1, <2>2
<1>. HIDE DEF n, pieces
<1>4. PICK m, p : EndAt(pieces, m, p)  BY <1>1, MessagesPlaced
<1>5. /\ m \in Nat /\ p \in [1 .. m -> 1 .. n]
      /\ DOMAIN SplitHandshake(pieces) = 1 .. m
      /\ \A j \in 1 .. m : /\ pieces[p[j]].last
                           /\ SplitHandshake(pieces)[j] = pieces[p[j]].message
      /\ \A k, j \in 1 .. m : k < j => p[k] < p[j]
      /\ \A c \in 1 .. n : pieces[c].last => \E j \in 1 .. m : p[j] = c
  BY <1>1, <1>4 DEF EndAt
<1>. HIDE DEF all
\* An opinion is what a piece tells.
<1>6. ASSUME r.type = "application_data", r.content = "handshake", r.misread = None
      PROVE  /\ \A j \in Opinions(r) : j \in 1 .. m /\ Telling(pieces[p[j]])
                                      /\ EarlyDataFromTicket(all[j]) = Allows(pieces[p[j]].message)
             /\ \A d \in 1 .. n : Telling(pieces[d]) => \E j \in Opinions(r) : p[j] = d
  <2>1. DOMAIN all = 1 .. m /\ \A j \in 1 .. m : all[j] = pieces[p[j]].message  BY <1>2, <1>5, <1>6
  <2>2. \A j \in 1 .. m : all[j].type = "new_session_ticket" =>
          EarlyDataFromTicket(all[j]) = Allows(all[j])
    BY <1>3, <1>6, <2>1
  <2>3. ASSUME NEW j \in Opinions(r)
        PROVE  /\ j \in 1 .. m /\ Telling(pieces[p[j]])
               /\ EarlyDataFromTicket(all[j]) = Allows(pieces[p[j]].message)
    <3>1. j \in DOMAIN all /\ all[j].type = "new_session_ticket" /\ EarlyDataFromTicket(all[j]) # None
      BY DEF Opinions, all
    <3>. QED  BY <1>5, <2>1, <2>2, <3>1 DEF Telling
  <2>4. ASSUME NEW d \in 1 .. n, Telling(pieces[d]) PROVE \E j \in Opinions(r) : p[j] = d
    <3>1. PICK j \in 1 .. m : p[j] = d  BY <1>5, <2>4 DEF Telling
    <3>2. all[j].type = "new_session_ticket" /\ EarlyDataFromTicket(all[j]) # None
      BY <2>1, <2>2, <2>4, <3>1 DEF Telling
    <3>3. j \in Opinions(r)  BY <1>6, <2>1, <3>2 DEF Opinions, all
    <3>. QED  BY <3>1, <3>3
  <2>. QED  BY <2>3, <2>4
<1>7. ASSUME Speaks(r)
      PROVE  /\ r.content = "handshake" /\ r.key # "handshake" /\ r.misread = None
             /\ Opinion(r) \in Nat
             /\ \E c \in DOMAIN pieces :
                  /\ Telling(pieces[c]) /\ Allows(pieces[c].message) = Opinion(r)
                  /\ \A d \in DOMAIN pieces : Telling(pieces[d]) => c <= d
  <2>1. PICK h \in Opinions(r) : r.type = "application_data"  BY <1>7 DEF Speaks
  <2>2. /\ r.content = "handshake" /\ h \in DOMAIN all
        /\ all[h].type = "new_session_ticket" /\ EarlyDataFromTicket(all[h]) # None
    BY DEF Opinions, all
  <2>3. r.key # "handshake" /\ r.misread = None  BY <1>3, <2>1, <2>2
  <2>. DEFINE j == Min(Opinions(r))
              c == p[j]
  <2>4. /\ \A k \in Opinions(r) : k \in 1 .. m /\ Telling(pieces[p[k]])
                                 /\ EarlyDataFromTicket(all[k]) = Allows(pieces[p[k]].message)
        /\ \A d \in 1 .. n : Telling(pieces[d]) => \E k \in Opinions(r) : p[k] = d
    BY <1>6, <2>1, <2>2, <2>3
  <2>5. j \in Opinions(r) /\ \A k \in Opinions(r) : j <= k
    <3>1. Opinions(r) \subseteq 1 .. m /\ Opinions(r) # {}  BY <2>1, <2>4
    <3>2. m \in Nat  BY <1>5
    <3>. QED  BY <3>1, <3>2, FirstAmong
  <2>6. Opinion(r) = EarlyDataFromTicket(all[j])  BY DEF Opinion, all
  <2>. HIDE DEF j
  <2>7. /\ j \in 1 .. m /\ c \in 1 .. n /\ Telling(pieces[c]) /\ Allows(pieces[c].message) = Opinion(r)
    BY <1>5, <2>4, <2>5, <2>6
  <2>8. Opinion(r) \in Nat
    <3>1. all[j].type = "new_session_ticket" /\ j \in DOMAIN all  BY <2>5 DEF Opinions, all
    <3>2. EarlyDataFromTicket(all[j]) = Allows(all[j]) /\ Allows(all[j]) # None
      <4>1. EarlyDataFromTicket(all[j]) # None  BY <2>5 DEF Opinions, all
      <4>. QED  BY <1>3, <2>1, <2>2, <3>1, <4>1
    <3>. QED  BY <1>3, <2>1, <2>2, <2>6, <3>1, <3>2
  <2>9. ASSUME NEW d \in 1 .. n, Telling(pieces[d]) PROVE c <= d
    <3>1. PICK k \in Opinions(r) : p[k] = d  BY <2>4, <2>9
    <3>2. k \in 1 .. m /\ j <= k  BY <2>4, <2>5
    <3>3. j = k \/ j < k  BY <2>7, <3>2
    <3>4. p[j] <= p[k]
      <4>1. p[j] \in 1 .. n /\ p[k] \in 1 .. n  BY <1>5, <2>7, <3>2
      <4>2. j < k => p[j] < p[k]  BY <1>5, <2>7, <3>2
      <4>. QED  BY <1>1, <3>3, <4>1, <4>2
    <3>. QED  BY <3>1, <3>4
  <2>. HIDE DEF c
  <2>. QED  BY <1>1, <2>2, <2>3, <2>7, <2>8, <2>9
<1>8. ASSUME r.type = "application_data", r.content = "handshake", r.misread = None,
             NEW d \in DOMAIN pieces, Telling(pieces[d])
      PROVE  Speaks(r)
  <2>1. \E j \in Opinions(r) : p[j] = d  BY <1>1, <1>6, <1>8
  <2>. QED  BY <1>8, <2>1 DEF Speaks
<1>. QED  BY <1>7, <1>8 DEF pieces

\* What the tickets of a session say is what its records with an opinion do.
LEMMA OfferHeard ==
  ASSUME IsStream(script), TicketsClear(script)
  PROVE  /\ \A i \in DOMAIN script : Speaks(script[i]) =>
              /\ Opinion(script[i]) \in Nat
              /\ \E k \in Tickets : Allows(Told[k].message) = Opinion(script[i])
         /\ TicketsWhole =>
              /\ \A i \in DOMAIN script :
                   Speaks(script[i]) /\ (\A h \in 1 .. i - 1 : ~Speaks(script[h])) =>
                     Offer = IF Opinion(script[i]) = 0 THEN None ELSE Opinion(script[i])
              /\ (\A i \in DOMAIN script : ~Speaks(script[i])) => Offer = None
<1>. DEFINE n == Len(script)
            lists == [i \in DOMAIN script |-> IF i \in Sealed /\ script[i].content = "handshake"
                                               THEN script[i].pieces ELSE <<>>]
<1>1. n \in Nat /\ DOMAIN script = 1 .. n  BY LenProperties DEF IsStream
<1>2. Told = Gathered(lists)  BY DEF Told
<1>3. DOMAIN lists = 1 .. n /\ \A i \in 1 .. n : \E m \in Nat : DOMAIN lists[i] = 1 .. m
  <2>1. ASSUME NEW i \in 1 .. n PROVE \E m \in Nat : DOMAIN lists[i] = 1 .. m
    <3>1. script[i].pieces \in Seq(ToSet(script[i].pieces))  BY <1>1 DEF IsStream
    <3>2. DOMAIN script[i].pieces = 1 .. Len(script[i].pieces) /\ Len(script[i].pieces) \in Nat
      BY <3>1, LenProperties
    <3>3. DOMAIN <<>> = 1 .. 0 /\ 0 \in Nat  OBVIOUS
    <3>4. lists[i] = script[i].pieces \/ lists[i] = <<>>  BY <1>1
    <3>. QED  BY <3>2, <3>3, <3>4
  <2>. QED  BY <1>1, <2>1
<1>4. /\ \A i \in 1 .. n : i \in Sealed /\ script[i].content = "handshake" =>
           lists[i] = script[i].pieces
      /\ \A i \in 1 .. n : DOMAIN lists[i] # {} =>
           i \in Sealed /\ script[i].content = "handshake" /\ lists[i] = script[i].pieces
  BY <1>1
<1>. HIDE DEF n, lists
<1>5. PICK size, places : LaidOut(lists, size, places)  BY <1>1, <1>3, GatheredPlaced
<1>6. /\ size \in Nat /\ DOMAIN Told = 1 .. size
      /\ \A k \in 1 .. size :
           /\ places[k][1] \in 1 .. n /\ places[k][2] \in Nat
           /\ places[k][2] \in DOMAIN lists[places[k][1]]
           /\ Told[k] = lists[places[k][1]][places[k][2]]
      /\ \A k, l \in 1 .. size :
           k < l => \/ places[k][1] < places[l][1]
                    \/ places[k][1] = places[l][1] /\ places[k][2] < places[l][2]
      /\ \A i \in 1 .. n : \A c \in DOMAIN lists[i] : \E k \in 1 .. size : places[k] = <<i, c>>
  BY <1>2, <1>3, <1>5 DEF LaidOut
<1>7. \A k : k \in Tickets <=> k \in 1 .. size /\ Telling(Told[k])  BY <1>6 DEF Tickets, Telling
\* Where a record with an opinion tells it.
<1>8. ASSUME NEW i \in 1 .. n, Speaks(script[i])
      PROVE  /\ Opinion(script[i]) \in Nat
             /\ \E k \in Tickets :
                  /\ places[k][1] = i /\ Allows(Told[k].message) = Opinion(script[i])
                  /\ \A l \in Tickets : places[l][1] = i => places[k][2] <= places[l][2]
  <2>. DEFINE r == script[i]
  <2>1. /\ r.content = "handshake" /\ r.key # "handshake" /\ r.misread = None
        /\ Opinion(r) \in Nat
        /\ \E c \in DOMAIN r.pieces :
             /\ Telling(r.pieces[c]) /\ Allows(r.pieces[c].message) = Opinion(r)
             /\ \A d \in DOMAIN r.pieces : Telling(r.pieces[d]) => c <= d
    BY <1>1, <1>8, OpinionTold
  <2>2. PICK c \in DOMAIN r.pieces :
             /\ Telling(r.pieces[c]) /\ Allows(r.pieces[c].message) = Opinion(r)
             /\ \A d \in DOMAIN r.pieces : Telling(r.pieces[d]) => c <= d
    BY <2>1
  <2>3. i \in Sealed  BY <1>1, <1>8, <2>1 DEF Sealed, Speaks
  <2>4. lists[i] = r.pieces  BY <1>4, <2>1, <2>3
  <2>5. PICK k \in 1 .. size : places[k] = <<i, c>>  BY <1>6, <2>4
  <2>6. places[k][1] = i /\ places[k][2] = c  BY <2>5
  <2>7. Told[k] = r.pieces[c]  BY <1>6, <2>4, <2>6
  <2>8. k \in Tickets  BY <1>7, <2>2, <2>7
  <2>9. ASSUME NEW l \in Tickets, places[l][1] = i PROVE c <= places[l][2]
    <3>1. l \in 1 .. size /\ Telling(Told[l])  BY <1>7
    <3>2. places[l][2] \in DOMAIN r.pieces /\ Told[l] = r.pieces[places[l][2]]
      BY <1>6, <2>4, <2>9, <3>1
    <3>. QED  BY <2>2, <3>1, <3>2
  <2>. QED  BY <2>1, <2>2, <2>6, <2>7, <2>8, <2>9
\* A ticket is told by a record with an opinion, if none is split.
<1>9. ASSUME TicketsWhole, NEW k \in Tickets
      PROVE  places[k][1] \in 1 .. n /\ Speaks(script[places[k][1]])
  <2>. DEFINE i == places[k][1]
              c == places[k][2]
  <2>1. k \in 1 .. size /\ Telling(Told[k])  BY <1>7
  <2>2. i \in 1 .. n /\ c \in DOMAIN lists[i] /\ Told[k] = lists[i][c]  BY <1>6, <2>1
  <2>. HIDE DEF i, c
  <2>3. i \in Sealed /\ script[i].content = "handshake" /\ lists[i] = script[i].pieces
    BY <1>4, <2>2
  <2>4. script[i].type = "application_data" /\ script[i].misread = None
    BY <1>9, <2>3 DEF Sealed, TicketsWhole
  <2>5. Speaks(script[i])  BY <1>1, <2>1, <2>2, <2>3, <2>4, OpinionTold
  <2>. QED  BY <2>2, <2>5 DEF i
<1>10. ASSUME TicketsWhole, NEW i \in 1 .. n, Speaks(script[i]),
              \A h \in 1 .. i - 1 : ~Speaks(script[h])
       PROVE  Offer = IF Opinion(script[i]) = 0 THEN None ELSE Opinion(script[i])
  <2>1. PICK k \in Tickets :
                  /\ places[k][1] = i /\ Allows(Told[k].message) = Opinion(script[i])
                  /\ \A l \in Tickets : places[l][1] = i => places[k][2] <= places[l][2]
    BY <1>8, <1>10
  <2>2. Tickets \subseteq 1 .. size /\ Tickets # {}  BY <1>7, <2>1
  <2>. DEFINE l == Min(Tickets)
  <2>3. l \in Tickets /\ l <= k  BY <1>6, <2>1, <2>2, FirstAmong
  <2>. HIDE DEF l
  <2>4. places[l][1] \in 1 .. n /\ Speaks(script[places[l][1]])  BY <1>9, <1>10, <2>3
  <2>5. places[l][1] >= i
    <3>1. places[l][1] \notin 1 .. i - 1  BY <1>10, <2>4
    <3>. QED  BY <1>1, <2>4, <3>1
  <2>6. ~(l < k)
    <3>. SUFFICES ASSUME l < k PROVE FALSE  OBVIOUS
    <3>1. \/ places[l][1] < places[k][1]
          \/ places[l][1] = places[k][1] /\ places[l][2] < places[k][2]
      BY <1>6, <2>1, <2>2, <2>3
    <3>2. places[l][1] \in Int /\ places[k][1] = i /\ i \in Int  BY <1>1, <2>1, <2>4
    <3>3. places[l][1] = i /\ places[l][2] < places[k][2]  BY <2>5, <3>1, <3>2
    <3>4. places[k][2] <= places[l][2]  BY <2>1, <2>3, <3>3
    <3>5. places[k][2] \in Nat /\ places[l][2] \in Nat  BY <1>6, <2>1, <2>2, <2>3
    <3>. QED  BY <3>3, <3>4, <3>5
  <2>7. l = k
    <3>1. l \in 1 .. size /\ k \in 1 .. size  BY <2>1, <2>2, <2>3
    <3>. QED  BY <1>6, <2>3, <2>6, <3>1
  <2>. QED  BY <2>1, <2>2, <2>7 DEF Offer, l
<1>11. ASSUME TicketsWhole, \A i \in 1 .. n : ~Speaks(script[i]) PROVE Offer = None
  <2>1. Tickets = {}  BY <1>9, <1>11
  <2>. QED  BY <2>1 DEF Offer
<1>12. \A i \in DOMAIN script : Speaks(script[i]) =>
         /\ Opinion(script[i]) \in Nat
         /\ \E k \in Tickets : Allows(Told[k].message) = Opinion(script[i])
  BY <1>1, <1>8
<1>. QED  BY <1>1, <1>10, <1>11, <1>12

-----------------------------------------------------------------------------
(***************************************************************************)
(* A session whose keys are in order is opened to its end.                 *)
(***************************************************************************)
\* What a record that is opened lets the loop return.
Returns(r) == IF Opinions(r) = {} THEN None ELSE Settled(Opinion(r))

\* A turn of the loop with the next record under its key, or with the first one
\* under the application keys.
LEMMA TurnOpens ==
  ASSUME NEW s, IsInspection(s), s.returned = None, NEW n, NEW r, r = n.record,
         r.type = "application_data", r.content # None, r.key \in EpochKeys,
         n.number = s.seq[r.key],
         r.key = s.key \/ (s.key = "handshake" /\ ~s.switched),
         NEW t, t = Inspect(s, n)
  PROVE  /\ IsInspection(t)
         /\ t.returned = Returns(r)
         /\ \A k \in EpochKeys : t.seq[k] = IF k = r.key THEN s.seq[k] + 1 ELSE s.seq[k]
         /\ s.switched \/ r.key # s.key => t.switched /\ t.key = r.key
         /\ ~s.switched /\ r.key = s.key =>
              IF Finishes(r) THEN t.switched /\ t.key = "application"
                             ELSE ~t.switched /\ t.key = s.key
<1>. DEFINE w == Walk(s, n)
            retry == Switch(w)
            again == Walk(retry, n)
<1>1. /\ IsInspection(w) /\ w.key = s.key /\ w.switched = s.switched /\ w.returned = s.returned
      /\ \A k \in EpochKeys : w.seq[k] = IF Decrypts(s, n) /\ k = s.key THEN s.seq[k] + 1 ELSE s.seq[k]
  BY WalkIs
<1>2. s.switched \in BOOLEAN /\ s.key \in EpochKeys  BY DEF IsInspection
<1>3. CASE r.key = s.key
  <2>1. Decrypts(s, n) /\ Opens(s, n)  BY <1>3 DEF Decrypts, Opens
  <2>2. t = ReadMessages(w, r)  BY <2>1 DEF Inspect
  <2>. HIDE DEF w
  <2>3. /\ IsInspection(t) /\ t.seq = w.seq
        /\ t.returned = IF Opinions(r) = {} THEN w.returned ELSE Settled(Opinion(r))
        /\ IF Finishes(r) THEN t.key = (IF w.switched THEN w.key ELSE "application") /\ t.switched
                          ELSE t.key = w.key /\ t.switched = w.switched
    BY <1>1, <2>2, MessagesRead
  <2>4. \A k \in EpochKeys : t.seq[k] = IF k = r.key THEN s.seq[k] + 1 ELSE s.seq[k]
    BY <1>1, <1>3, <2>1, <2>3
  <2>5. s.switched => t.switched /\ t.key = r.key  BY <1>1, <1>3, <2>3
  <2>6. ~s.switched => IF Finishes(r) THEN t.switched /\ t.key = "application"
                                      ELSE ~t.switched /\ t.key = s.key
    BY <1>1, <2>3
  <2>7. t.returned = Returns(r)  BY <1>1, <2>3 DEF Returns
  <2>. QED  BY <1>3, <2>3, <2>4, <2>5, <2>6, <2>7
<1>4. CASE r.key # s.key
  <2>1. ~Decrypts(s, n) /\ ~Opens(s, n)  BY <1>4 DEF Decrypts, Opens
  <2>2. s.key = "handshake" /\ ~s.switched /\ r.key = "application"  BY <1>2, <1>4 DEF EpochKeys
  <2>3. t = IF ~Opens(retry, n) THEN [s EXCEPT !.returned = Undetermined]
            ELSE ReadMessages(again, r)
    BY <2>1, <2>2 DEF Inspect
  <2>4. \A k \in EpochKeys : w.seq[k] = s.seq[k]  BY <1>1, <2>1
  <2>. HIDE DEF w
  <2>5. /\ IsInspection(retry) /\ retry.key = "application" /\ retry.switched = TRUE
        /\ retry.returned = w.returned /\ retry.seq = w.seq
    BY <1>1, SwitchIs, ZenonT(40)
  <2>. HIDE DEF retry
  <2>6. Decrypts(retry, n) /\ Opens(retry, n)  BY <2>2, <2>4, <2>5 DEF Decrypts, Opens, EpochKeys
  <2>7. /\ IsInspection(again)
        /\ again.key = retry.key /\ again.switched = retry.switched /\ again.returned = retry.returned
        /\ \A k \in EpochKeys :
             again.seq[k] = IF Decrypts(retry, n) /\ k = retry.key THEN retry.seq[k] + 1
                            ELSE retry.seq[k]
    BY <2>5, WalkIs
  <2>8. t = ReadMessages(again, r)  BY <2>3, <2>6
  <2>. HIDE DEF again
  <2>9. /\ IsInspection(t) /\ t.seq = again.seq
        /\ t.returned = IF Opinions(r) = {} THEN again.returned ELSE Settled(Opinion(r))
        /\ IF Finishes(r) THEN t.key = (IF again.switched THEN again.key ELSE "application") /\ t.switched
                          ELSE t.key = again.key /\ t.switched = again.switched
    BY <2>7, <2>8, MessagesRead
  <2>10. \A k \in EpochKeys : t.seq[k] = IF k = r.key THEN s.seq[k] + 1 ELSE s.seq[k]
    BY <2>2, <2>4, <2>5, <2>6, <2>7, <2>9
  <2>11. t.switched /\ t.key = r.key  BY <2>2, <2>5, <2>7, <2>9
  <2>12. t.returned = Returns(r)  BY <1>1, <2>5, <2>7, <2>9 DEF Returns
  <2>. QED  BY <1>4, <2>9, <2>10, <2>11, <2>12
<1>. QED  BY <1>3, <1>4

\* The records under a key among the first m.
Under(records, key, m) ==
  {j \in 1 .. m : records[j].type = "application_data" /\ records[j].key = key}

\* One record more is one more under its own key.
LEMMA OneMoreUnder ==
  ASSUME NEW records, NEW key, NEW m \in Nat, m > 0
  PROVE  /\ Cardinality(Under(records, key, m - 1)) \in Nat
         /\ Cardinality(Under(records, key, m))
              = IF records[m].type = "application_data" /\ records[m].key = key
                  THEN Cardinality(Under(records, key, m - 1)) + 1
                  ELSE Cardinality(Under(records, key, m - 1))
<1>. DEFINE U == Under(records, key, m - 1)
            V == Under(records, key, m)
            new == records[m].type = "application_data" /\ records[m].key = key
<1>1. \A j : j \in 1 .. m <=> j \in 1 .. m - 1 \/ j = m  OBVIOUS
<1>2. m \notin 1 .. m - 1  OBVIOUS
<1>3. IsFiniteSet(U)
  <2>1. IsFiniteSet(1 .. m - 1)  BY FS_Interval
  <2>2. U \subseteq 1 .. m - 1  BY DEF Under
  <2>. HIDE DEF U
  <2>. QED  BY <2>1, <2>2, FS_Subset
<1>4. V = IF new THEN U \cup {m} ELSE U  BY <1>1 DEF Under
<1>5. m \notin U  BY <1>2 DEF Under
<1>. HIDE DEF U, V
<1>6. Cardinality(U) \in Nat /\ Cardinality(U \cup {m}) = Cardinality(U) + 1
  BY <1>3, <1>5, FS_CardinalityType, FS_AddElement
<1>. HIDE DEF new
<1>7. Cardinality(V) = IF new THEN Cardinality(U) + 1 ELSE Cardinality(U)  BY <1>4, <1>6
<1>. QED  BY <1>6, <1>7 DEF U, V, new

\* Every record has something in it and is under one of the two keys, and no tail
\* of a message passes for a Finished.
Openable(records) ==
  \A i \in DOMAIN records : records[i].type = "application_data" =>
    /\ records[i].key # "updated" /\ records[i].content # None
    /\ records[i].misread # None =>
         \A j \in DOMAIN records[i].misread : records[i].misread[j].type # "finished"

\* Once the handshake is finished, or a record is under the application keys, no
\* other is under those of the handshake.
LEMMA KeysChange ==
  ASSUME NEW records, IsStream(records), KeysInOrder(records), Openable(records),
         NEW i \in DOMAIN records, records[i].type = "application_data",
         records[i].key # "handshake" \/ Finishes(records[i]),
         NEW j \in DOMAIN records, i < j, records[j].type = "application_data"
  PROVE  records[j].key = "application"
<1>. DEFINE r == records[i]
<1>1. records[j].key \in {"handshake", "application"}  BY DEF KeysInOrder, Openable
<1>. SUFFICES ASSUME records[j].key = "handshake" PROVE FALSE  BY <1>1
<1>2. /\ r.key = "handshake"
      /\ \A k \in DOMAIN r.pieces : r.pieces[k].last => r.pieces[k].message.type # "finished"
  BY DEF KeysInOrder
<1>3. Finishes(r)  BY <1>2
<1>4. PICK h \in DOMAIN Spelled(r) : Spelled(r)[h].type = "finished"  BY <1>3 DEF Finishes
<1>5. r.misread = None
  <2>1. r.misread # None => Spelled(r) = r.misread  BY DEF Spelled
  <2>2. r.misread # None => \A k \in DOMAIN r.misread : r.misread[k].type # "finished"
    BY DEF Openable
  <2>. HIDE DEF r
  <2>. QED  BY <1>4, <2>1, <2>2
<1>6. Spelled(r) = SplitHandshake(r.pieces)  BY <1>5 DEF Spelled
<1>7. Len(r.pieces) \in Nat /\ DOMAIN r.pieces = 1 .. Len(r.pieces)  BY LenProperties DEF IsStream
<1>. HIDE DEF r
<1>8. PICK m, p : EndAt(r.pieces, m, p)  BY <1>7, MessagesPlaced
<1>9. h \in 1 .. m /\ p[h] \in DOMAIN r.pieces /\ r.pieces[p[h]].last
      /\ r.pieces[p[h]].message.type = "finished"
  BY <1>4, <1>6, <1>8 DEF EndAt
<1>. QED  BY <1>2, <1>9

\* What the loop has after m records, if it has not returned: the records opened
\* so far under each key, and the keys that the next ones are under.
InStep(records, m, s) ==
  /\ s.switched <=> s.key = "application"
  /\ \A k \in EpochKeys : s.seq[k] = Cardinality(Under(records, k, m))
  /\ ~s.switched => \A j \in 1 .. m : records[j].type = "application_data" =>
       records[j].key = "handshake" /\ ~Finishes(records[j])
  /\ s.switched => \A j \in DOMAIN records : j > m /\ records[j].type = "application_data" =>
       records[j].key = "application"

\* The next record of such a stream is opened, and the loop stays in step with it.
LEMMA StepsTaken ==
  ASSUME NEW records, IsStream(records), KeysInOrder(records), Openable(records),
         NEW m \in DOMAIN records, NEW s, IsInspection(s), s.returned = None,
         InStep(records, m - 1, s), NEW t, t = Inspect(s, Numbered(records)[m])
  PROVE  /\ IsInspection(t)
         /\ t.returned # None => t.returned = Settled(Opinion(records[m]))
         /\ t.returned = None => InStep(records, m, t)
<1>. DEFINE n == Len(records)
            r == records[m]
            number == Numbered(records)[m]
<1>1. n \in Nat /\ DOMAIN records = 1 .. n  BY LenProperties DEF IsStream
<1>2. m \in Nat /\ m > 0 /\ m \in 1 .. n  BY <1>1
<1>3. number.record = r  BY DEF Numbered
<1>4. /\ s.switched <=> s.key = "application"
      /\ \A k \in EpochKeys : s.seq[k] = Cardinality(Under(records, k, m - 1))
      /\ ~s.switched => \A j \in 1 .. m - 1 : records[j].type = "application_data" =>
           records[j].key = "handshake" /\ ~Finishes(records[j])
      /\ s.switched => \A j \in 1 .. n : j > m - 1 /\ records[j].type = "application_data" =>
           records[j].key = "application"
  BY <1>1 DEF InStep
<1>5. s.switched \in BOOLEAN /\ s.key \in EpochKeys  BY DEF IsInspection
<1>6. \A j \in 1 .. n : j > m => j > m - 1  BY <1>2
<1>7. \A j \in 1 .. m : j \in 1 .. m - 1 \/ j = m  BY <1>2
<1>. HIDE DEF n, number
<1>8. CASE r.type # "application_data"
  <2>1. t = s  BY <1>3, <1>8, TurnReturns DEF number
  <2>2. \A k \in EpochKeys : t.seq[k] = Cardinality(Under(records, k, m))
    <3>1. \A k : Cardinality(Under(records, k, m)) = Cardinality(Under(records, k, m - 1))
      BY <1>2, <1>8, OneMoreUnder
    <3>. QED  BY <1>4, <2>1, <3>1
  <2>3. ~t.switched => \A j \in 1 .. m : records[j].type = "application_data" =>
           records[j].key = "handshake" /\ ~Finishes(records[j])
    BY <1>4, <1>7, <1>8, <2>1
  <2>4. t.switched => \A j \in 1 .. n : j > m /\ records[j].type = "application_data" =>
           records[j].key = "application"
    BY <1>4, <1>6, <2>1
  <2>. QED  BY <1>1, <1>4, <2>1, <2>2, <2>3, <2>4 DEF InStep
<1>9. CASE r.type = "application_data"
  <2>1. r.key \in EpochKeys /\ r.content # None
    BY <1>9 DEF KeysInOrder, Openable, EpochKeys
  <2>2. number.number = s.seq[r.key]
    <3>1. number.number = Cardinality({j \in 1 .. m - 1 : /\ records[j].type = "application_data"
                                                         /\ r.type = "application_data"
                                                         /\ records[j].key = r.key})
      BY DEF number, Numbered
    <3>2. number.number = Cardinality(Under(records, r.key, m - 1))  BY <1>9, <3>1 DEF Under
    <3>. QED  BY <1>4, <2>1, <3>2
  <2>3. r.key = s.key \/ (s.key = "handshake" /\ ~s.switched)
    <3>1. s.switched => r.key = "application"
      <4>1. m > m - 1  BY <1>2
      <4>. QED  BY <1>2, <1>4, <1>9, <4>1
    <3>. QED  BY <1>4, <1>5, <3>1 DEF EpochKeys
  <2>. HIDE DEF r
  <2>4. /\ IsInspection(t)
        /\ t.returned = Returns(r)
        /\ \A k \in EpochKeys : t.seq[k] = IF k = r.key THEN s.seq[k] + 1 ELSE s.seq[k]
        /\ s.switched \/ r.key # s.key => t.switched /\ t.key = r.key
        /\ ~s.switched /\ r.key = s.key =>
              IF Finishes(r) THEN t.switched /\ t.key = "application"
                             ELSE ~t.switched /\ t.key = s.key
    <3>1. t = Inspect(s, number) /\ r = number.record  BY <1>3 DEF number
    <3>. QED  BY <1>9, <2>1, <2>2, <2>3, <3>1, TurnOpens
  <2>5. \A k \in EpochKeys : t.seq[k] = Cardinality(Under(records, k, m))
    <3>1. \A k : Cardinality(Under(records, k, m))
                   = IF k = r.key THEN Cardinality(Under(records, k, m - 1)) + 1
                     ELSE Cardinality(Under(records, k, m - 1))
      BY <1>2, <1>9, OneMoreUnder DEF r
    <3>. QED  BY <1>4, <2>4, <3>1
  <2>6. r.key # "handshake" \/ Finishes(r) =>
          \A j \in 1 .. n : j > m /\ records[j].type = "application_data" =>
            records[j].key = "application"
    <3>. SUFFICES ASSUME r.key # "handshake" \/ Finishes(r), NEW j \in 1 .. n, j > m,
                         records[j].type = "application_data"
                  PROVE  records[j].key = "application"
      OBVIOUS
    <3>1. m < j /\ j \in DOMAIN records  BY <1>1, <1>2
    <3>. QED  BY <1>9, <3>1, KeysChange DEF r
  <2>7. t.returned # None => t.returned = Settled(Opinion(records[m]))  BY <2>4 DEF Returns, r
  <2>8. CASE s.switched \/ r.key # s.key
    <3>1. t.switched /\ t.key = r.key  BY <2>4, <2>8
    <3>2. r.key = "application"
      <4>1. s.switched => r.key = s.key  BY <2>3
      <4>. QED  BY <1>4, <1>5, <2>1, <2>3, <2>8, <4>1 DEF EpochKeys
    <3>. QED  BY <1>1, <2>4, <2>5, <2>6, <2>7, <3>1, <3>2 DEF InStep
  <2>9. CASE ~s.switched /\ r.key = s.key /\ Finishes(r)
    <3>1. t.switched /\ t.key = "application"  BY <2>4, <2>9
    <3>. QED  BY <1>1, <2>4, <2>5, <2>6, <2>7, <2>9, <3>1 DEF InStep
  <2>10. CASE ~s.switched /\ r.key = s.key /\ ~Finishes(r)
    <3>1. ~t.switched /\ t.key = s.key  BY <2>4, <2>10
    <3>2. s.key = "handshake"  BY <1>4, <1>5, <2>10 DEF EpochKeys
    <3>3. \A j \in 1 .. m : records[j].type = "application_data" =>
           records[j].key = "handshake" /\ ~Finishes(records[j])
      BY <1>4, <1>7, <2>10, <3>2 DEF r
    <3>. QED  BY <1>1, <2>4, <2>5, <2>7, <3>1, <3>2, <3>3 DEF InStep
  <2>. QED  BY <1>5, <2>8, <2>9, <2>10
<1>. QED  BY <1>8, <1>9

\* The loop opens every record of such a stream, and it ends with an opinion or
\* with the keys changed, if the change shows.
LEMMA AllOpened ==
  ASSUME NEW records, IsStream(records), KeysInOrder(records), Openable(records),
         NEW last, last = Turns(records)[Len(records)]
  PROVE  \/ last.returned # None /\ \E size : last.returned = Settled(size)
         \/ last.returned = None /\ InStep(records, Len(records), last)
<1>. DEFINE n == Len(records)
            f == Turns(records)
            settled(s) == s.returned # None /\ \E size : s.returned = Settled(size)
            P == {m \in 0 .. n : /\ IsInspection(f[m])
                                 /\ settled(f[m]) \/ (f[m].returned = None /\ InStep(records, m, f[m]))}
<1>1. n \in Nat /\ DOMAIN records = 1 .. n  BY LenProperties DEF IsStream
<1>2. /\ f[0] = NewInspection
      /\ \A i \in 1 .. n : f[i] = Inspect(f[i - 1], Numbered(records)[i])
  BY <1>1, TurnsTaken
<1>3. last = f[n]  OBVIOUS
<1>. HIDE DEF f, n
<1>4. 0 \in P
  <2>1. /\ IsInspection(f[0]) /\ f[0].returned = None
        /\ f[0].key = "handshake" /\ f[0].switched = FALSE
        /\ \A k \in EpochKeys : f[0].seq[k] = 0
    BY <1>2, NewIs
  <2>2. \A k : Cardinality(Under(records, k, 0)) = 0
    <3>1. \A k : Under(records, k, 0) = {}  BY DEF Under
    <3>. QED  BY <3>1, FS_EmptySet
  <2>3. InStep(records, 0, f[0])  BY <2>1, <2>2 DEF InStep
  <2>. QED  BY <1>1, <2>1, <2>3
<1>5. ASSUME NEW m \in 1 .. n, m - 1 \in P PROVE m \in P
  <2>. DEFINE s == f[m - 1]
              t == f[m]
  <2>1. /\ IsInspection(s)
        /\ settled(s) \/ (s.returned = None /\ InStep(records, m - 1, s))
    BY <1>5
  <2>2. t = Inspect(s, Numbered(records)[m]) /\ m \in DOMAIN records  BY <1>1, <1>2
  <2>3. m \in 0 .. n  BY <1>1
  <2>4. IsInspection(t) /\ (settled(t) \/ (t.returned = None /\ InStep(records, m, t)))
    <3>. HIDE DEF s, t
    <3>1. CASE settled(s)
      <4>1. t = s  BY <2>1, <2>2, <3>1, TurnReturns
      <4>. QED  BY <2>1, <3>1, <4>1
    <3>2. CASE s.returned = None /\ InStep(records, m - 1, s)
      <4>1. /\ IsInspection(t)
            /\ t.returned # None => t.returned = Settled(Opinion(records[m]))
            /\ t.returned = None => InStep(records, m, t)
        BY <2>1, <2>2, <3>2, StepsTaken
      <4>. QED  BY <4>1
    <3>. QED  BY <2>1, <3>1, <3>2
  <2>. HIDE DEF settled
  <2>. QED  BY <2>3, <2>4
<1>6. n \in P
  <2>. HIDE DEF P
  <2>1. \A i \in 0 .. n : i \in P  BY <1>1, <1>4, <1>5, UpTo
  <2>. QED  BY <1>1, <2>1
<1>. QED  BY <1>3, <1>6 DEF n

-----------------------------------------------------------------------------
(***************************************************************************)
(* The session: what is examined is made of the first records of a stream. *)
(***************************************************************************)
\* From the handshake on, the stream is one of a session of its version, and the
\* verdict on 1.3 is what inspectEarlyData makes of the records read by then.
SessionInvariant ==
  stage \in {"established", "draining", "done"} =>
    /\ session \in SessionStates /\ received \in Nat
    /\ script \in IF session.version >= Tls13 THEN SessionScripts ELSE {<<>>}
    /\ stage = "draining" => session.version >= Tls13
    /\ stage = "done" /\ session.version >= Tls13 =>
         verdict = InspectEarlyData(SplitRecords(script, received), session.secrets, session.suite)

\* What a handshake has read is a number of units.
LEMMA HandshakeUnitsCounted ==
  ASSUME NEW s, IsStream(s)
  PROVE  HandshakeUnits(s) \in Nat /\ Units(s) \in Nat
<1>. DEFINE last == {i \in DOMAIN s : s[i].type = "application_data" /\ s[i].key = "handshake"}
            S == {0} \cup last
            k == Max(S)
            n == Len(s)
<1>1. n \in Nat /\ DOMAIN s = 1 .. n  BY LenProperties DEF IsStream
<1>2. S \subseteq 0 .. n /\ S # {}  BY <1>1
<1>3. HandshakeUnits(s) = Units(SubSeq(s, 1, k))  BY DEF HandshakeUnits
<1>. HIDE DEF S, n
<1>4. IsFiniteSet(0 .. n) /\ S \in SUBSET Int  BY <1>1, <1>2, FS_Interval
<1>5. IsFiniteSet(S)  BY <1>2, <1>4, FS_Subset
<1>6. k \in S  BY <1>2, <1>4, <1>5, MaxFacts
<1>. HIDE DEF k
<1>7. k \in 0 .. Len(s)  BY <1>2, <1>6 DEF n
<1>8. IsStream(SubSeq(s, 1, k))  BY <1>7, FirstOf
<1>9. \A t : IsStream(t) => Units(t) \in Nat
  <2>1. 0 \in Nat  OBVIOUS
  <2>. QED  BY <2>1, SplitIs
<1>. QED  BY <1>3, <1>8, <1>9

\* What a session of any version may receive is a stream.
LEMMA StreamOfSession ==
  ASSUME NEW version, NEW s \in IF version >= Tls13 THEN SessionScripts ELSE {<<>>}
  PROVE  IsStream(s)
<1>1. CASE version >= Tls13  BY <1>1, SessionsAssumption
<1>2. CASE ~(version >= Tls13)
  <2>1. s = <<>> /\ DOMAIN s = {}  BY <1>2
  <2>. QED  BY <2>1 DEF IsStream
<1>. QED  BY <1>1, <1>2

\* The inductive invariant of the session.
LEMMA SessionInvariantHolds == HandshakeSpec => []SessionInvariant
<1>1. HandshakeInit \/ (SessionInit /\ hello = None /\ record = None) => SessionInvariant
  <2>1. HandshakeInit => SessionInvariant  BY DEF HandshakeInit, SessionInvariant
  <2>2. SessionInit => SessionInvariant
    <3>. SUFFICES ASSUME SessionInit PROVE SessionInvariant  OBVIOUS
    <3>1. /\ session \in SessionStates /\ stage = "established"
          /\ script \in IF session.version >= Tls13 THEN SessionScripts ELSE {<<>>}
          /\ received \in HandshakeUnits(script) .. Units(script)
      BY DEF SessionInit
    <3>2. IsStream(script)  BY <3>1, StreamOfSession
    <3>3. HandshakeUnits(script) \in Nat /\ Units(script) \in Nat  BY <3>2, HandshakeUnitsCounted
    <3>4. received \in Nat  BY <3>1, <3>3
    <3>. QED  BY <3>1, <3>4 DEF SessionInvariant
  <2>. QED  BY <2>1, <2>2
<1>2. SessionInvariant /\ [HandshakeNext]_<<allVars, helloVars>> => SessionInvariant'
  <2>. SUFFICES ASSUME SessionInvariant, [HandshakeNext]_<<allVars, helloVars>>
                PROVE  SessionInvariant'
    OBVIOUS
  <2>0. stage \in {"established", "draining", "done"} =>
          /\ session \in SessionStates /\ received \in Nat /\ Units(script) \in Nat
          /\ script \in IF session.version >= Tls13 THEN SessionScripts ELSE {<<>>}
    BY StreamOfSession, HandshakeUnitsCounted DEF SessionInvariant
  <2>1. CASE MarshalHello \/ HandshakeFails \/ WriteHello
    BY <2>1 DEF MarshalHello, HandshakeFails, WriteHello, SessionInvariant
  <2>2. CASE stage = "probe" /\ Next /\ UNCHANGED earlyVars
    BY <2>2 DEF earlyVars, SessionInvariant
  <2>3. CASE OlderVersion
    <3>1. session.version < Tls13 /\ stage = "established"  BY <2>3 DEF OlderVersion
    <3>2. ~(session.version >= Tls13)  BY <2>0, <3>1, SessionsAssumption
    <3>. QED  BY <2>0, <2>3, <3>1, <3>2 DEF OlderVersion, vars, SessionInvariant
  <2>4. CASE WriteRequest
    BY <2>0, <2>4 DEF WriteRequest, vars, SessionInvariant
  <2>5. CASE WriteFails
    BY <2>0, <2>5 DEF WriteFails, Examine, SessionInvariant
  <2>6. CASE DrainChunk
    <3>1. /\ stage = "draining" /\ received' \in received + 1 .. Units(script)
          /\ script' = script /\ session' = session /\ stage' = stage
      BY <2>6 DEF DrainChunk, earlyVars
    <3>2. received' \in Nat  BY <2>0, <3>1
    <3>. QED  BY <2>0, <3>1, <3>2 DEF SessionInvariant
  <2>7. CASE DrainEnds
    <3>1. PICK n \in received .. Units(script) : Examine(n)  BY <2>7 DEF DrainEnds
    <3>2. n \in Nat  BY <2>0, <2>7 DEF DrainEnds
    <3>3. /\ script' = script /\ session' = session /\ stage' = "done" /\ received' = n
          /\ verdict' = InspectEarlyData(SplitRecords(script, n), session.secrets, session.suite)
      BY <3>1 DEF Examine
    <3>. QED  BY <2>0, <2>7, <3>2, <3>3 DEF DrainEnds, SessionInvariant
  <2>8. CASE Examined \/ UNCHANGED <<allVars, helloVars>>
    BY <2>8 DEF Examined, allVars, earlyVars, vars, SessionInvariant
  <2>. QED  BY <2>1, <2>2, <2>3, <2>4, <2>5, <2>6, <2>7, <2>8 DEF HandshakeNext, ConnectionNext
<1>. QED  BY <1>1, <1>2, PTL DEF HandshakeSpec

-----------------------------------------------------------------------------
(***************************************************************************)
(* The theorems about the session.                                         *)
(***************************************************************************)
\* An opinion of some size is not nil, and is determined.
LEMMA SettledIs ==
  ASSUME NEW size
  PROVE  /\ Settled(size).determined = TRUE /\ Undetermined.determined = FALSE
         /\ Settled(size).maxSize = IF size = 0 THEN None ELSE size
         /\ Settled(size) # Undetermined
         /\ size \in Nat => Settled(size) # None
         /\ Undetermined # None /\ Undetermined.maxSize = None
<1>. DEFINE m == IF size = 0 THEN None ELSE size
<1>1. Settled(size) = [determined |-> TRUE, maxSize |-> m]  BY DEF Settled, Determined
<1>2. size \in Nat => m \in Nat \cup {None}  OBVIOUS
<1>. HIDE DEF m
<1>3. size \in Nat => Settled(size) \in [determined : BOOLEAN, maxSize : Nat \cup {None}]
  BY <1>1, <1>2
<1>4. Undetermined \in [determined : BOOLEAN, maxSize : Nat \cup {None}]  BY DEF Undetermined
<1>5. Settled(size).determined = TRUE /\ Settled(size).maxSize = m  BY <1>1
<1>6. Undetermined.determined = FALSE /\ Undetermined.maxSize = None  BY DEF Undetermined
<1>7. Settled(size) # Undetermined  BY <1>5, <1>6
<1>. QED  BY <1>3, <1>4, <1>5, <1>6, <1>7, SessionsAssumption DEF m

\* What inspectEarlyData made of a session: nothing, the opinion of the first
\* record with one, or that there is none.
LEMMA WhatWasExamined ==
  ASSUME SessionInvariant, Judged, \A s \in SessionScripts : TicketsClear(s),
         NEW records, records = SplitRecords(script, received),
         NEW last, last = Turns(records)[Len(records)]
  PROVE  /\ script \in SessionScripts /\ IsStream(script) /\ TicketsClear(script)
         /\ \E k \in 0 .. Len(script) : records = SubSeq(script, 1, k)
         /\ verdict = InspectEarlyData(records, session.secrets, session.suite)
         /\ last.returned = None => \A i \in DOMAIN records : ~Speaks(records[i])
         /\ last.returned \in {None, Undetermined}
              \/ \E i \in DOMAIN records :
                   /\ Speaks(records[i]) /\ \A h \in 1 .. i - 1 : ~Speaks(records[h])
                   /\ last.returned = Settled(Opinion(records[i]))
<1>1. /\ script \in SessionScripts /\ received \in Nat
      /\ verdict = InspectEarlyData(records, session.secrets, session.suite)
  BY DEF SessionInvariant, Judged
<1>2. IsStream(script) /\ TicketsClear(script)  BY <1>1, SessionsAssumption
<1>3. PICK k \in 0 .. Len(script) : SplitRecords(script, received) = SubSeq(script, 1, k)
  BY <1>1, <1>2, SplitIs
<1>4. records = SubSeq(script, 1, k)  BY <1>3
<1>5. /\ DOMAIN records = 1 .. k /\ IsStream(records)
      /\ \A i \in 1 .. k : records[i] = script[i]
  BY <1>2, <1>4, FirstOf
<1>. DEFINE n == Len(records)
<1>6. n \in Nat /\ DOMAIN records = 1 .. n  BY <1>5, LenProperties DEF IsStream
<1>7. \A i \in 1 .. k : i \in DOMAIN script
  <2>1. Len(script) \in Nat /\ DOMAIN script = 1 .. Len(script)  BY <1>2, LenProperties DEF IsStream
  <2>. QED  BY <2>1
<1>8. \A i \in 1 .. n : Speaks(records[i]) => Settled(Opinion(records[i])) # None
  <2>. SUFFICES ASSUME NEW i \in 1 .. n, Speaks(records[i])
                PROVE  Settled(Opinion(records[i])) # None
    OBVIOUS
  <2>1. i \in 1 .. k /\ records[i] = script[i] /\ i \in DOMAIN script  BY <1>5, <1>6, <1>7
  <2>2. Opinion(records[i]) \in Nat  BY <1>2, <2>1, OfferHeard
  <2>. QED  BY <2>2, SettledIs
<1>9. last = Turns(records)[n]  OBVIOUS
<1>. HIDE DEF n
<1>10. last.returned = None => \A i \in 1 .. n : ~Speaks(records[i])
  <2>1. n = Len(records)  BY DEF n
  <2>. QED  BY <1>6, <1>8, <1>9, <2>1, FirstSpeaks
<1>11. last.returned \in {None, Undetermined}
         \/ \E i \in 1 .. n : /\ Speaks(records[i]) /\ \A h \in 1 .. i - 1 : ~Speaks(records[h])
                             /\ last.returned = Settled(Opinion(records[i]))
  <2>1. n = Len(records)  BY DEF n
  <2>. QED  BY <1>6, <1>8, <1>9, <2>1, FirstSpeaks
<1>. QED  BY <1>1, <1>2, <1>4, <1>6, <1>10, <1>11

\* inspectEarlyData (early_data.go:193-259): wherever a session is cut off and
\* however its handshake was packed into records, 0-RTT is reported only for a
\* server whose tickets, in the clear of what comes before them, offer it, with
\* what one of them allows.
THEOREM OfferNeverInventedHolds ==
  ASSUME \A s \in SessionScripts : TicketsClear(s)
  PROVE  HandshakeSpec => []OfferNeverInvented
<1>1. SessionInvariant => OfferNeverInvented
  <2>. SUFFICES ASSUME SessionInvariant, Judged, verdict.maxSize # None
                PROVE  /\ verdict.maxSize > 0
                       /\ \E i \in Tickets : Allows(Told[i].message) = verdict.maxSize
    BY DEF OfferNeverInvented
  <2>. DEFINE records == SplitRecords(script, received)
              last == Turns(records)[Len(records)]
  <2>1. /\ IsStream(script) /\ TicketsClear(script)
        /\ \E k \in 0 .. Len(script) : records = SubSeq(script, 1, k)
        /\ verdict = InspectEarlyData(records, session.secrets, session.suite)
        /\ last.returned \in {None, Undetermined}
             \/ \E i \in DOMAIN records : Speaks(records[i]) /\ last.returned = Settled(Opinion(records[i]))
    BY WhatWasExamined
  <2>2. verdict \in {Undetermined, Determined(None)} \/ (last.returned # None /\ verdict = last.returned)
    <3>1. last = Turns(records)[Len(records)]  OBVIOUS
    <3>. HIDE DEF records, last
    <3>2. InspectEarlyData(records, session.secrets, session.suite)
            = IF ~({"handshake", "application"} \subseteq session.secrets)
                 \/ session.suite \notin OpenableSuites
                THEN Undetermined
              ELSE IF last.returned # None THEN last.returned
              ELSE IF last.switched THEN Determined(None)
              ELSE Undetermined
      BY <3>1, InspectionEnds
    <3>3. verdict = InspectEarlyData(records, session.secrets, session.suite)  BY <2>1
    <3>. QED  BY <3>2, <3>3
  <2>3. Undetermined.maxSize = None /\ Determined(None).maxSize = None  BY DEF Undetermined, Determined
  <2>. HIDE DEF records, last
  <2>4. PICK i \in DOMAIN records : Speaks(records[i]) /\ verdict = Settled(Opinion(records[i]))
    BY <2>1, <2>2, <2>3
  <2>5. PICK k \in 0 .. Len(script) : records = SubSeq(script, 1, k)  BY <2>1
  <2>6. i \in DOMAIN script /\ records[i] = script[i]
    <3>1. DOMAIN records = 1 .. k /\ \A j \in 1 .. k : records[j] = script[j]  BY <2>1, <2>5, FirstOf
    <3>2. Len(script) \in Nat /\ DOMAIN script = 1 .. Len(script)
      BY <2>1, LenProperties DEF IsStream
    <3>. QED  BY <2>5, <3>1, <3>2
  <2>7. /\ Opinion(script[i]) \in Nat
        /\ \E j \in Tickets : Allows(Told[j].message) = Opinion(script[i])
    BY <2>1, <2>4, <2>6, OfferHeard
  <2>8. verdict.maxSize = IF Opinion(script[i]) = 0 THEN None ELSE Opinion(script[i])
    BY <2>4, <2>6, SettledIs
  <2>9. Opinion(script[i]) # 0 /\ verdict.maxSize = Opinion(script[i])  BY <2>8
  <2>. QED  BY <2>7, <2>9
<1>. QED  BY <1>1, SessionInvariantHolds, PTL

\* readEarlyData (session.go:137-157): a stream read to its end, with each of its
\* tickets in one record and in the clear of what comes before it, is judged right
\* or not at all; and it is judged if its keys are in order and its records can be
\* opened, wherever Finished ends.
THEOREM WholeStreamRightHolds ==
  ASSUME \A s \in SessionScripts : TicketsClear(s) /\ KeysInOrder(s)
  PROVE  HandshakeSpec => []WholeStreamRight
<1>1. SessionInvariant => WholeStreamRight
  <2>. SUFFICES ASSUME SessionInvariant, Judged, received = Units(script), TicketsWhole
                PROVE  /\ verdict.determined => verdict.maxSize = Offer
                       /\ Readable => verdict.determined
    BY DEF WholeStreamRight
  <2>. DEFINE last == Turns(script)[Len(script)]
  <2>1. SplitRecords(script, received) = script
    <3>1. script \in SessionScripts /\ received \in Nat  BY DEF SessionInvariant, Judged
    <3>2. IsStream(script)  BY <3>1, SessionsAssumption
    <3>3. received >= Units(script)  BY <3>1
    <3>. QED  BY <3>1, <3>2, <3>3, SplitIs
  <2>2. /\ script \in SessionScripts /\ IsStream(script) /\ TicketsClear(script)
        /\ verdict = InspectEarlyData(script, session.secrets, session.suite)
        /\ last.returned = None => \A i \in DOMAIN script : ~Speaks(script[i])
        /\ last.returned \in {None, Undetermined}
             \/ \E i \in DOMAIN script :
                  /\ Speaks(script[i]) /\ \A h \in 1 .. i - 1 : ~Speaks(script[h])
                  /\ last.returned = Settled(Opinion(script[i]))
    BY <2>1, WhatWasExamined
  <2>3. verdict = IF ~({"handshake", "application"} \subseteq session.secrets)
                       \/ session.suite \notin OpenableSuites
                    THEN Undetermined
                  ELSE IF last.returned # None THEN last.returned
                  ELSE IF last.switched THEN Determined(None)
                  ELSE Undetermined
    BY <2>2, InspectionEnds
  <2>4. /\ Undetermined.determined = FALSE
        /\ Determined(None).determined = TRUE /\ Determined(None).maxSize = None
    BY DEF Undetermined, Determined
  <2>5. last = Turns(script)[Len(script)]  OBVIOUS
  <2>. HIDE DEF last
  <2>6. ASSUME verdict.determined PROVE verdict.maxSize = Offer
    <3>1. CASE last.returned = None
      <4>1. verdict = Determined(None)  BY <2>3, <2>4, <2>6, <3>1
      <4>2. \A i \in DOMAIN script : ~Speaks(script[i])  BY <2>2, <3>1
      <4>3. Offer = None  BY <2>2, <4>2, OfferHeard
      <4>. QED  BY <2>4, <4>1, <4>3
    <3>2. CASE last.returned # None
      <4>1. verdict = last.returned /\ last.returned # Undetermined  BY <2>3, <2>4, <2>6, <3>2
      <4>2. PICK i \in DOMAIN script :
              /\ Speaks(script[i]) /\ \A h \in 1 .. i - 1 : ~Speaks(script[h])
              /\ last.returned = Settled(Opinion(script[i]))
        BY <2>2, <3>2, <4>1
      <4>3. Offer = IF Opinion(script[i]) = 0 THEN None ELSE Opinion(script[i])
        BY <2>2, <4>2, OfferHeard
      <4>4. verdict.maxSize = IF Opinion(script[i]) = 0 THEN None ELSE Opinion(script[i])
        BY <4>1, <4>2, SettledIs
      <4>. QED  BY <4>3, <4>4
    <3>. QED  BY <3>1, <3>2
  <2>7. ASSUME Readable PROVE verdict.determined
    <3>1. {"handshake", "application"} \subseteq session.secrets /\ session.suite \in OpenableSuites
      BY <2>7 DEF Readable
    <3>2. Openable(script) /\ KeysInOrder(script)  BY <2>2, <2>7 DEF Readable, Openable
    <3>3. \/ last.returned # None /\ \E size : last.returned = Settled(size)
          \/ last.returned = None /\ InStep(script, Len(script), last)
      BY <2>2, <2>5, <3>2, AllOpened
    <3>4. CASE last.returned # None /\ \E size : last.returned = Settled(size)
      <4>1. PICK size : last.returned = Settled(size)  BY <3>4
      <4>2. last.returned.determined = TRUE  BY <4>1, SettledIs
      <4>. QED  BY <2>3, <3>1, <3>4, <4>2
    <3>5. CASE last.returned = None /\ InStep(script, Len(script), last)
      <4>1. DOMAIN script = 1 .. Len(script)  BY <2>2, LenProperties DEF IsStream
      <4>2. last.switched
        <5>. SUFFICES ASSUME ~last.switched PROVE FALSE  OBVIOUS
        <5>1. \A j \in DOMAIN script : script[j].type = "application_data" =>
                script[j].key = "handshake" /\ ~Finishes(script[j])
          BY <3>5, <4>1 DEF InStep
        <5>2. Sealed = {}  BY <5>1 DEF Sealed
        <5>3. PICK i \in DOMAIN script :
                /\ script[i].type = "application_data"
                /\ \E j \in DOMAIN Spelled(script[i]) : Spelled(script[i])[j].type = "finished"
          BY <2>7, <5>2 DEF Readable, KeyChangeShows
        <5>4. script[i].content = "handshake"
          <6>1. script[i].key = "handshake"  BY <5>1, <5>3
          <6>2. script[i].content \in {"handshake", None}  BY <3>2, <5>3, <6>1 DEF KeysInOrder
          <6>3. script[i].content # None  BY <3>2, <5>3 DEF Openable
          <6>. QED  BY <6>2, <6>3
        <5>5. Finishes(script[i])  BY <5>3, <5>4 DEF Finishes
        <5>. QED  BY <5>1, <5>3, <5>5
      <4>. QED  BY <2>3, <2>4, <3>1, <3>5, <4>2
    <3>. QED  BY <3>3, <3>4, <3>5
  <2>. QED  BY <2>6, <2>7
<1>. QED  BY <1>1, SessionInvariantHolds, PTL
=============================================================================
