------------------------- MODULE TopicNames_proofs -------------------------
(***************************************************************************)
(* Machine-checked proofs that the names of topics and types, whatever     *)
(* they are, fit in the buffers allocated for them, and that the helpers   *)
(* free these buffers and name the topics as they are detected.            *)
(***************************************************************************)
EXTENDS TopicNames, FiniteSetTheorems, FunctionTheorems, SequenceTheorems,
        WellFoundedInduction, TLAPS

-----------------------------------------------------------------------------
(* The width of a text. *)

CharactersAt(text, i) == {i} \X (1 .. Len(text[i]))

\* The pieces of a text are strings with a length.
LEMMA TextElements ==
  ASSUME NEW text, IsText(text)
  PROVE  /\ text \in Seq(STRING) /\ Len(text) \in Nat /\ DOMAIN text = 1 .. Len(text)
         /\ \A i \in DOMAIN text : Len(text[i]) \in Nat
BY LenProperties DEF IsText

\* A text has finitely many characters.
LEMMA WidthType ==
  ASSUME NEW text, IsText(text)
  PROVE  IsFiniteSet(Characters(text)) /\ Width(text) \in Nat
<1> DEFINE parts == {CharactersAt(text, i) : i \in DOMAIN text}
<1>1. IsFiniteSet(DOMAIN text)
  BY TextElements, FS_Interval
<1>2. IsFiniteSet(parts)
  <2> DEFINE part == [i \in DOMAIN text |-> CharactersAt(text, i)]
  <2>1. part \in Surjection(DOMAIN text, parts)
    BY DEF Surjection
  <2> QED
    BY <1>1, <2>1, FS_Surjection
<1>3. ASSUME NEW i \in DOMAIN text
      PROVE  IsFiniteSet(CharactersAt(text, i))
  <2>1. 1 \in Int /\ Len(text[i]) \in Int
    BY <1>3, TextElements
  <2>2. IsFiniteSet({i}) /\ IsFiniteSet(1 .. Len(text[i]))
    BY <2>1, FS_Singleton, FS_Interval
  <2> QED
    BY <2>2, FS_Product DEF CharactersAt
<1>4. IsFiniteSet(UNION parts)
  BY <1>2, <1>3, FS_UNION
<1>5. Characters(text) = UNION parts
  BY DEF Characters, CharactersAt
<1> QED
  BY <1>4, <1>5, FS_CardinalityType DEF Width

\* A piece is as wide as its length.
LEMMA WidthOfPiece ==
  ASSUME NEW piece, NEW n \in Nat, IsString(piece, n)
  PROVE  IsText(<<piece>>) /\ Width(<<piece>>) = n
<1>0. piece \in STRING /\ Len(piece) = n
  BY DEF IsString
<1>1. IsText(<<piece>>)
  <2>1. /\ \A S : \A p \in S : <<p>> \in Seq(S)
        /\ \A p : DOMAIN <<p>> = {1} /\ <<p>>[1] = p
    <3>1. \A S : \A p \in S : <<p>> \in Seq(S)
      OBVIOUS
    <3>2. \A p : DOMAIN <<p>> = 1 .. 1
      OBVIOUS
    <3>3. \A p : <<p>>[1] = p
      OBVIOUS
    <3> QED
      BY <3>1, <3>2, <3>3
  <2>2. \A i \in DOMAIN <<piece>> : Len(<<piece>>[i]) = Len(piece)
    BY <2>1
  <2> QED
    BY <1>0, <2>1, <2>2 DEF IsText
<1>2. Characters(<<piece>>) = {1} \X (1 .. n)
  <2>1. DOMAIN <<piece>> = {1} /\ <<piece>>[1] = piece
    OBVIOUS
  <2> QED
    BY <1>0, <2>1 DEF Characters
<1>3. IsFiniteSet({1}) /\ Cardinality({1}) = 1
  BY FS_Singleton
<1>4. 1 \in Int /\ n \in Int
  OBVIOUS
<1>5. IsFiniteSet(1 .. n) /\ Cardinality(1 .. n) = n
  <2>1. IsFiniteSet(1 .. n) /\ Cardinality(1 .. n) = IF 1 > n THEN 0 ELSE n - 1 + 1
    BY <1>4, FS_Interval
  <2> QED
    BY <1>4, <2>1
<1>6. Cardinality({1} \X (1 .. n)) = Cardinality({1}) * Cardinality(1 .. n)
  BY <1>3, <1>5, FS_Product, ZenonT(30)
<1>7. Cardinality({1} \X (1 .. n)) = n
  BY <1>3, <1>4, <1>5, <1>6
<1> QED
  BY <1>1, <1>2, <1>7 DEF Width

\* Two sequences joined: what is at which place.
LEMMA Joined ==
  ASSUME NEW S, NEW a \in Seq(S), NEW b \in Seq(S)
  PROVE  /\ a \o b \in Seq(S) /\ Len(a \o b) = Len(a) + Len(b)
         /\ \A i \in 1 .. Len(a) : (a \o b)[i] = a[i]
         /\ \A i \in 1 .. Len(b) : (a \o b)[Len(a) + i] = b[i]
<1>1. Len(a) \in Nat /\ Len(b) \in Nat
  BY LenProperties
<1>2. /\ a \o b \in Seq(S) /\ Len(a \o b) = Len(a) + Len(b)
      /\ \A i \in 1 .. Len(a) + Len(b) :
           (a \o b)[i] = IF i <= Len(a) THEN a[i] ELSE b[i - Len(a)]
  BY ConcatProperties
<1>3. \A i \in 1 .. Len(a) : (a \o b)[i] = a[i]
  BY <1>1, <1>2
<1>4. ASSUME NEW i \in 1 .. Len(b)
      PROVE  (a \o b)[Len(a) + i] = b[i]
  <2>1. /\ Len(a) + i \in 1 .. Len(a) + Len(b) /\ ~(Len(a) + i <= Len(a))
        /\ Len(a) + i - Len(a) = i
    BY <1>1
  <2>2. (a \o b)[Len(a) + i] = b[Len(a) + i - Len(a)]
    BY <1>2, <2>1
  <2> QED
    BY <2>1, <2>2
<1> QED
  BY <1>2, <1>3, <1>4

\* Texts are as wide together as each by itself.
LEMMA WidthOfJoined ==
  ASSUME NEW s, NEW t, IsText(s), IsText(t)
  PROVE  IsText(s \o t) /\ Width(s \o t) = Width(s) + Width(t)
<1> DEFINE n == Len(s)
           st == s \o t
           moved == [c \in Characters(t) |-> <<n + c[1], c[2]>>]
           behind == {<<n + c[1], c[2]>> : c \in Characters(t)}
<1>1. /\ s \in Seq(STRING) /\ n \in Nat /\ DOMAIN s = 1 .. n
      /\ t \in Seq(STRING) /\ Len(t) \in Nat /\ DOMAIN t = 1 .. Len(t)
      /\ \A i \in DOMAIN s : Len(s[i]) \in Nat
      /\ \A i \in DOMAIN t : Len(t[i]) \in Nat
  BY TextElements
<1>2. /\ st \in Seq(STRING) /\ DOMAIN st = 1 .. n + Len(t)
      /\ \A i \in 1 .. n : st[i] = s[i]
      /\ \A i \in 1 .. Len(t) : st[n + i] = t[i]
  BY <1>1, Joined, LenProperties
<1> HIDE DEF n, st
<1>3. \A i \in DOMAIN st : i \in 1 .. n \/ \E j \in 1 .. Len(t) : i = n + j
  <2> SUFFICES ASSUME NEW i \in 1 .. n + Len(t), i \notin 1 .. n
               PROVE  \E j \in 1 .. Len(t) : i = n + j
    BY <1>2
  <2>1. i - n \in 1 .. Len(t) /\ i = n + (i - n)
    BY <1>1
  <2> QED
    BY <2>1
<1>4. IsText(st)
  <2>1. \A i \in DOMAIN st : Len(st[i]) \in Nat
    BY <1>1, <1>2, <1>3
  <2> QED
    BY <1>2, <2>1 DEF IsText
<1>5. \A c : c \in Characters(s) <=>
        \E i \in 1 .. n : \E k \in 1 .. Len(s[i]) : c = <<i, k>>
  BY <1>1 DEF Characters
<1>6. \A c : c \in Characters(t) <=>
        \E i \in 1 .. Len(t) : \E k \in 1 .. Len(t[i]) : c = <<i, k>>
  BY <1>1 DEF Characters
<1>7. \A c : c \in Characters(st) <=>
        \E i \in DOMAIN st : \E k \in 1 .. Len(st[i]) : c = <<i, k>>
  BY DEF Characters
<1>8. \A c : c \in behind <=>
        \E i \in 1 .. Len(t) : \E k \in 1 .. Len(t[i]) : c = <<n + i, k>>
  <2>1. ASSUME NEW c \in behind
        PROVE  \E i \in 1 .. Len(t) : \E k \in 1 .. Len(t[i]) : c = <<n + i, k>>
    <3>1. PICK d \in Characters(t) : c = <<n + d[1], d[2]>>
      OBVIOUS
    <3>2. PICK i \in 1 .. Len(t) : \E k \in 1 .. Len(t[i]) : d = <<i, k>>
      BY <1>6
    <3> QED
      BY <3>1, <3>2
  <2>2. ASSUME NEW i \in 1 .. Len(t), NEW k \in 1 .. Len(t[i])
        PROVE  <<n + i, k>> \in behind
    <3>1. <<i, k>> \in Characters(t)
      BY <1>6
    <3> QED
      BY <3>1
  <2> HIDE DEF behind
  <2> QED
    BY <2>1, <2>2
<1>9. Characters(st) = Characters(s) \cup behind
  <2>1. ASSUME NEW c \in Characters(st)
        PROVE  c \in Characters(s) \cup behind
    <3>1. PICK i \in DOMAIN st : \E k \in 1 .. Len(st[i]) : c = <<i, k>>
      BY <1>7
    <3>2. CASE i \in 1 .. n
      <4>1. \E k \in 1 .. Len(s[i]) : c = <<i, k>>
        BY <1>2, <3>1, <3>2
      <4> QED
        BY <1>5, <3>2, <4>1
    <3>3. CASE \E j \in 1 .. Len(t) : i = n + j
      <4>1. PICK j \in 1 .. Len(t) : i = n + j
        BY <3>3
      <4>2. \E k \in 1 .. Len(t[j]) : c = <<n + j, k>>
        BY <1>2, <3>1, <4>1
      <4> QED
        BY <1>8, <4>2
    <3> QED
      BY <1>3, <3>2, <3>3
  <2>2. ASSUME NEW c \in Characters(s)
        PROVE  c \in Characters(st)
    <3>1. PICK i \in 1 .. n : \E k \in 1 .. Len(s[i]) : c = <<i, k>>
      BY <1>5
    <3>2. i \in DOMAIN st /\ st[i] = s[i]
      BY <1>1, <1>2
    <3> QED
      BY <1>7, <3>1, <3>2
  <2>3. ASSUME NEW c \in behind
        PROVE  c \in Characters(st)
    <3>1. PICK j \in 1 .. Len(t) : \E k \in 1 .. Len(t[j]) : c = <<n + j, k>>
      BY <1>8
    <3>2. n + j \in DOMAIN st /\ st[n + j] = t[j]
      BY <1>1, <1>2
    <3> QED
      BY <1>7, <3>1, <3>2
  <2> HIDE DEF behind
  <2> QED
    BY <2>1, <2>2, <2>3
<1>10. Characters(s) \cap behind = {}
  <2> SUFFICES ASSUME NEW c \in Characters(s), c \in behind
               PROVE  FALSE
    OBVIOUS
  <2>1. PICK i \in 1 .. n : \E k \in 1 .. Len(s[i]) : c = <<i, k>>
    BY <1>5
  <2>2. PICK j \in 1 .. Len(t) : \E k \in 1 .. Len(t[j]) : c = <<n + j, k>>
    BY <1>8
  <2>3. i = n + j
    BY <2>1, <2>2
  <2> QED
    BY <1>1, <2>3
<1>11. moved \in Bijection(Characters(t), behind)
  <2>1. moved \in Surjection(Characters(t), behind)
    BY DEF Surjection
  <2>2. ASSUME NEW c \in Characters(t), NEW d \in Characters(t), moved[c] = moved[d]
        PROVE  c = d
    <3>1. PICK i \in 1 .. Len(t) : \E k \in 1 .. Len(t[i]) : c = <<i, k>>
      BY <1>6
    <3>2. PICK k \in 1 .. Len(t[i]) : c = <<i, k>>
      BY <3>1
    <3>3. PICK j \in 1 .. Len(t) : \E l \in 1 .. Len(t[j]) : d = <<j, l>>
      BY <1>6
    <3>4. PICK l \in 1 .. Len(t[j]) : d = <<j, l>>
      BY <3>3
    <3>5. <<n + i, k>> = <<n + j, l>>
      BY <2>2, <3>2, <3>4
    <3>6. n + i = n + j /\ k = l
      BY <3>5
    <3>7. i = j
      BY <1>1, <3>6
    <3> QED
      BY <3>2, <3>4, <3>6, <3>7
  <2>3. moved \in Injection(Characters(t), behind)
    BY <2>2 DEF Injection, IsInjective
  <2> QED
    BY <2>1, <2>3 DEF Bijection
<1>12. IsFiniteSet(behind) /\ Cardinality(behind) = Width(t)
  <2>1. ExistsBijection(Characters(t), behind)
    BY <1>11 DEF ExistsBijection
  <2> HIDE DEF behind
  <2> QED
    BY <2>1, WidthType, FS_Bijection DEF Width
<1> HIDE DEF behind
<1>13. Cardinality(Characters(st)) = Width(s) + Width(t) - Cardinality({})
  BY <1>9, <1>10, <1>12, WidthType, FS_Union DEF Width
<1>14. Cardinality(Characters(st)) = Width(s) + Width(t)
  BY <1>13, WidthType, FS_EmptySet
<1> QED
  BY <1>4, <1>14 DEF Width, st

-----------------------------------------------------------------------------
(* The names. *)

Kinds == {"default", "request", "response"}

\* The literal pieces with the lengths that LengthsAssumption states.
LEMMA Lengths ==
  /\ \A kind \in Kinds : IsString(Prefix[kind], 3)
  /\ \A kind \in Kinds : \E n \in 1 .. 10 : IsString(Suffix[kind], n)
  /\ IsString("dds_", 4) /\ IsString("::", 2) /\ IsString("/", 1) /\ IsString(Nul, 1)
<1>1. \A kind \in Kinds : IsString(Prefix[kind], 3)
  <2>1. Kinds = DOMAIN Prefix
    BY DEF Kinds, Prefix
  <2> QED
    BY <2>1, LengthsAssumption
<1>2. \A kind \in Kinds : \E n \in 1 .. 10 : IsString(Suffix[kind], n)
  <2>1. 1 \in 1 .. 10 /\ 9 \in 1 .. 10 /\ 10 \in 1 .. 10
    OBVIOUS
  <2> QED
    BY <2>1, LengthsAssumption DEF Kinds
<1> QED
  BY <1>1, <1>2, LengthsAssumption

\* A topic's name is as long as it is said to be, and begins with its prefix.
LEMMA DdsTopicFits ==
  ASSUME NEW topic, IsText(topic), NEW kind \in Kinds
  PROVE  /\ TopicLength(topic, kind) \in Nat
         /\ Width(DdsTopic(topic, kind) \o <<Nul>>) = TopicLength(topic, kind) + 1
         /\ (DdsTopic(topic, kind) \o <<Nul>>)[1] = Prefix[kind]
<1>1. IsText(<<Prefix[kind]>>) /\ Width(<<Prefix[kind]>>) = 3
  BY Lengths, WidthOfPiece
<1>2. IsText(<<Nul>>) /\ Width(<<Nul>>) = 1
  BY Lengths, WidthOfPiece
<1>3. /\ IsText(<<Prefix[kind]>> \o topic)
      /\ Width(<<Prefix[kind]>> \o topic) = 3 + Width(topic)
  BY <1>1, WidthOfJoined
<1>4. Width((<<Prefix[kind]>> \o topic) \o <<Nul>>) = 3 + Width(topic) + 1
  BY <1>2, <1>3, WidthOfJoined
<1>5. ((<<Prefix[kind]>> \o topic) \o <<Nul>>)[1] = Prefix[kind]
  <2>1. /\ <<Prefix[kind]>> \in Seq(STRING) /\ topic \in Seq(STRING)
        /\ <<Nul>> \in Seq(STRING)
    BY <1>1, <1>2, TextElements
  <2>2. Len(<<Prefix[kind]>>) = 1 /\ <<Prefix[kind]>>[1] = Prefix[kind]
    OBVIOUS
  <2>3. \A a, b \in Seq(STRING) : Len(a) >= 1 =>
          a \o b \in Seq(STRING) /\ Len(a \o b) >= 1 /\ (a \o b)[1] = a[1]
    BY ConcatProperties
  <2> QED
    BY <2>1, <2>2, <2>3
<1>6. Width(topic) \in Nat
  BY WidthType
<1>7. TopicLength(topic, kind) = Width(topic) + 3
  BY Lengths DEF TopicLength, IsString
<1> QED
  BY <1>4, <1>5, <1>6, <1>7 DEF DdsTopic

\* A set of numbers up to a limit has a greatest one: the search for the last
\* colon ends at it.
LEMMA Least ==
  ASSUME NEW T \in SUBSET Nat, T # {}
  PROVE  \E x \in T : \A y \in T : x <= y
<1> DEFINE R == OpToRel(<, Nat)
<1>1. IsWellFoundedOn(R, Nat)
  BY NatLessThanWellFounded
<1>2. PICK x \in T : \A y \in T : ~(<<y, x>> \in R)
  BY <1>1, WFMin
<1>3. \A y \in T : ~(y < x)
  <2> SUFFICES ASSUME NEW y \in T PROVE ~(y < x)
    OBVIOUS
  <2>1. R = {ss \in Nat \X Nat : ss[1] < ss[2]}
    BY DEF OpToRel
  <2> QED
    BY <1>2, <2>1
<1> QED
  BY <1>3

\* A type with a "::" has a last one, at a place of its own.
LEMMA LastColonFound ==
  ASSUME NEW type, IsText(type), Colons(type) # {}
  PROVE  LastColon(type) \in DOMAIN type
<1>1. DOMAIN type = 1 .. Len(type) /\ Len(type) \in Nat
  BY TextElements
<1> DEFINE behind == {Len(type) - i : i \in Colons(type)}
<1>2. /\ Colons(type) \subseteq 1 .. Len(type)
      /\ \A i \in Colons(type) : Len(type) - i \in Nat
  BY <1>1 DEF Colons
<1>3. behind \in SUBSET Nat /\ behind # {}
  BY <1>2
<1>4. PICK b \in behind : \A c \in behind : b <= c
  <2> HIDE DEF behind
  <2> QED
    BY <1>3, Least
<1>5. PICK i \in Colons(type) : b = Len(type) - i
  BY <1>4
<1>6. \A j \in Colons(type) : j <= i
  <2> SUFFICES ASSUME NEW j \in Colons(type) PROVE j <= i
    OBVIOUS
  <2>1. Len(type) - i <= Len(type) - j
    BY <1>4, <1>5
  <2>2. i \in Int /\ j \in Int
    BY <1>2
  <2> QED
    BY <1>1, <2>1, <2>2
<1>7. LastColon(type) \in Colons(type)
  BY <1>6 DEF LastColon
<1> QED
  BY <1>7 DEF Colons

\* What is written of a type's name leaves out a "::" that is counted: there is
\* room for the longest suffix wherever there is room for a shorter one's length.
LEMMA DdsTypeFits ==
  ASSUME NEW type, IsText(type), NEW kind \in Kinds
  PROVE  /\ TypeLength(type, kind) \in Nat
         /\ ValidType(type) =>
              /\ IsText(DdsType(type, kind))
              /\ Width(DdsType(type, kind)) <= Width(type) + 4 + Len(Suffix[kind])
<1>1. Width(type) \in Nat
  BY WidthType
<1> PICK m \in 1 .. 10 : IsString(Suffix[kind], m)
  BY Lengths
<1>2. Len(Suffix[kind]) = m /\ TypeLength(type, kind) = Width(type) + 4 + m + 2
  BY Lengths DEF TypeLength, IsString
<1>3. ASSUME ValidType(type)
      PROVE  /\ IsText(DdsType(type, kind))
             /\ Width(DdsType(type, kind)) <= Width(type) + 4 + Len(Suffix[kind])
  <2> DEFINE n == Len(type)
             last == LastColon(type)
             stem == Stem(type)
             tail == SubSeq(type, last + 1, n)
             marked == stem \o <<"::">>
  <2>1. /\ last \in 1 .. n /\ n \in Nat /\ type[last] = "::"
        /\ type \in Seq(STRING) /\ DOMAIN type = 1 .. n
        /\ \A i \in 1 .. n : Len(type[i]) \in Nat
    BY <1>3, LastColonFound, TextElements DEF ValidType
  <2>2. stem = SubSeq(type, 1, last - 1)
    BY DEF Stem
  <2> HIDE DEF last, n, stem
  <2>3. /\ stem \in Seq(STRING) /\ Len(stem) = last - 1
        /\ DOMAIN stem = 1 .. last - 1
        /\ \A i \in 1 .. last - 1 : stem[i] = type[i]
    BY <2>1, <2>2, SubSeqProperties
  <2>4. /\ tail \in Seq(STRING) /\ Len(tail) = n - last
        /\ DOMAIN tail = 1 .. n - last
        /\ \A i \in 1 .. n - last : tail[i] = type[last + i]
    BY <2>1, SubSeqProperties
  <2> HIDE DEF tail
  <2>5. IsText(stem)
    <3>1. \A i \in 1 .. last - 1 : Len(stem[i]) \in Nat
      BY <2>1, <2>3
    <3> QED
      BY <2>3, <3>1 DEF IsText
  <2>6. IsText(tail)
    <3>1. \A i \in 1 .. n - last : Len(tail[i]) \in Nat
      BY <2>1, <2>4
    <3> QED
      BY <2>4, <3>1 DEF IsText
  <2>7. IsText(<<"::">>) /\ Width(<<"::">>) = 2
    BY Lengths, WidthOfPiece
  <2>8. IsText(marked) /\ Width(marked) = Width(stem) + 2
    BY <2>5, <2>7, WidthOfJoined
  <2>9. /\ marked \in Seq(STRING) /\ Len(marked) = last
        /\ \A i \in 1 .. last - 1 : marked[i] = stem[i]
        /\ marked[last] = "::"
    <3>1. <<"::">> \in Seq(STRING) /\ Len(<<"::">>) = 1 /\ <<"::">>[1] = "::"
      BY <2>7 DEF IsText
    <3>2. /\ marked \in Seq(STRING) /\ Len(marked) = Len(stem) + Len(<<"::">>)
          /\ \A i \in 1 .. Len(stem) : marked[i] = stem[i]
          /\ \A i \in 1 .. Len(<<"::">>) : marked[Len(stem) + i] = <<"::">>[i]
      BY <2>3, <3>1, Joined
    <3>3. marked[Len(stem) + 1] = "::"
      BY <3>1, <3>2
    <3>4. last - 1 + 1 = last /\ Len(stem) = last - 1
      BY <2>1, <2>3
    <3> QED
      BY <3>1, <3>2, <3>3, <3>4
  <2> HIDE DEF marked
  <2>10. type = marked \o tail
    <3>1. /\ marked \o tail \in Seq(STRING) /\ Len(marked \o tail) = n
          /\ \A i \in 1 .. last : (marked \o tail)[i] = marked[i]
          /\ \A i \in 1 .. n - last : (marked \o tail)[last + i] = tail[i]
      <4>1. Len(marked) = last /\ Len(tail) = n - last /\ last \in 1 .. n /\ n \in Nat
        BY <2>1, <2>4, <2>9
      <4>2. /\ marked \o tail \in Seq(STRING)
            /\ Len(marked \o tail) = Len(marked) + Len(tail)
            /\ \A i \in 1 .. Len(marked) : (marked \o tail)[i] = marked[i]
            /\ \A i \in 1 .. Len(tail) : (marked \o tail)[Len(marked) + i] = tail[i]
        <5>1. marked \in Seq(STRING) /\ tail \in Seq(STRING)
          BY <2>4, <2>9
        <5> QED
          BY <5>1, Joined
      <4> QED
        BY <4>1, <4>2
    <3>2. ASSUME NEW i \in 1 .. n
          PROVE  type[i] = (marked \o tail)[i]
      <4>1. CASE i <= last - 1
        <5>1. i \in 1 .. last - 1 /\ i \in 1 .. last
          BY <2>1, <4>1
        <5> QED
          BY <2>3, <2>9, <3>1, <5>1
      <4>2. CASE i = last
        BY <2>1, <2>9, <3>1, <4>2
      <4>3. CASE i >= last + 1
        <5>1. i - last \in 1 .. n - last /\ i = last + (i - last)
          BY <2>1, <4>3
        <5>2. (marked \o tail)[last + (i - last)] = tail[i - last]
          BY <3>1, <5>1
        <5>3. tail[i - last] = type[last + (i - last)]
          BY <2>4, <5>1
        <5> QED
          BY <5>1, <5>2, <5>3
      <4>4. i <= last - 1 \/ i = last \/ i >= last + 1
        BY <2>1
      <4> QED
        BY <4>1, <4>2, <4>3, <4>4
    <3> QED
      BY <2>1, <3>1, <3>2, SeqEqual DEF n
  <2>11. Width(type) = Width(stem) + 2 + Width(tail)
    BY <2>6, <2>8, <2>10, WidthOfJoined
  <2>12. Width(stem) \in Nat /\ Width(tail) \in Nat
    BY <2>5, <2>6, WidthType
  <2>13. /\ IsText(<<"dds_">>) /\ Width(<<"dds_">>) = 4
         /\ IsText(<<Suffix[kind]>>) /\ Width(<<Suffix[kind]>>) = m
    BY Lengths, WidthOfPiece
  <2>14. /\ IsText((<<"dds_">> \o <<"::">>) \o <<Suffix[kind]>>)
         /\ Width((<<"dds_">> \o <<"::">>) \o <<Suffix[kind]>>) = 4 + 2 + m
    BY <2>7, <2>13, WidthOfJoined
  <2>15. <<"dds_", "::", Suffix[kind]>> = (<<"dds_">> \o <<"::">>) \o <<Suffix[kind]>>
    OBVIOUS
  <2>16. DdsType(type, kind) = stem \o <<"dds_", "::", Suffix[kind]>>
    BY DEF DdsType, stem
  <2>17. /\ IsText(DdsType(type, kind))
         /\ Width(DdsType(type, kind)) = Width(stem) + (4 + 2 + m)
    BY <2>5, <2>14, <2>15, <2>16, WidthOfJoined
  <2> QED
    BY <1>2, <2>11, <2>12, <2>17
<1> QED
  BY <1>1, <1>2, <1>3

-----------------------------------------------------------------------------
(* The invariant. *)

Stages == {"query", "alloc", "fill", "filled", "returned", "failed"}
Buffers == [size : Nat, text : Seq(STRING)]

OwnTopic(c) == IF c.helper = "service" THEN ServiceTopic(c) ELSE c.topic
OwnKind(c) == IF c.helper = "service" THEN "request" ELSE "default"
AskedSlots(c) == IF c.helper = "service" THEN SlotNames ELSE {"topic", "type"}

\* The lengths that a query returns.
Asked(c) ==
  [topic |-> TopicLength(OwnTopic(c), OwnKind(c)) + 1,
   type |-> TypeLength(c.type, OwnKind(c)) + 1,
   rep_topic |-> TopicLength(OwnTopic(c), "response") + 1,
   rep_type |-> TypeLength(c.type, "response") + 1]

NamesTypeOK ==
  /\ call \in Calls
  /\ stage \in Stages
  /\ length \in [SlotNames -> Nat]
  /\ buffer \in [SlotNames -> Buffers]

\* Between the query and the call that fills the buffers: every buffer
\* allocated is empty and as long as the query said.
Prepared ==
  /\ \A s \in AskedSlots(call) : length[s] = Asked(call)[s]
  /\ \A s \in SlotNames : buffer[s] # NULL =>
       s \in AskedSlots(call) /\ buffer[s] = [size |-> Asked(call)[s], text |-> <<>>]

\* The topics begin with the prefixes that detect_endpoint_type looks at.
Prefixed(text, kind) == text[1] = Prefix[kind]

FilledWell ==
  /\ WritesFit
  /\ buffer["topic"] # NULL => Prefixed(buffer["topic"].text, OwnKind(call))
  /\ call.helper = "service" /\ buffer["rep_topic"] # NULL =>
       Prefixed(buffer["rep_topic"].text, "response")

ReturnedWell ==
  /\ Prefixed(result["topic"], OwnKind(call))
  /\ call.helper = "service" => Prefixed(result["rep_topic"], "response")

\* The C++ helper that has not noticed a failed allocation has one buffer.
TopicOnly == \A s \in SlotNames : s # "topic" => buffer[s] = NULL

Complete ==
  \/ \A i \in DOMAIN Needed(call.helper) : buffer[Slots[i]] # NULL
  \/ TopicOnly

FailedWell == IF error = "NULL_COPIED" THEN WritesFit /\ TopicOnly ELSE buffer = NoBuffers

NInv ==
  /\ NamesTypeOK
  /\ QuerySuffices
  /\ stage \in {"query", "alloc", "fill", "filled"} => error = "OK"
  /\ stage \in {"query", "returned"} => buffer = NoBuffers
  /\ stage = "failed" => FailedWell
  /\ stage \in {"alloc", "fill"} => Prepared
  /\ stage \in {"fill", "filled"} => Complete
  /\ stage = "filled" => FilledWell
  /\ stage = "returned" => ReturnedWell

-----------------------------------------------------------------------------
(* What a call of the C functions leaves. *)

\* The four buffers by name.
LEMMA SlotsNamed ==
  /\ SlotNames = {"topic", "type", "rep_topic", "rep_type"}
  /\ \A i \in DOMAIN Slots : Slots[i] \in SlotNames
<1>1. DOMAIN Slots = 1 .. 4
  BY DEF Slots
<1>2. /\ Slots[1] = "topic" /\ Slots[2] = "type"
      /\ Slots[3] = "rep_topic" /\ Slots[4] = "rep_type"
  BY DEF Slots
<1>3. 1 .. 4 = {1, 2, 3, 4}
  OBVIOUS
<1> HIDE DEF Slots
<1> QED
  BY <1>1, <1>2, <1>3 DEF SlotNames

\* NULL is a buffer without room.
LEMMA NullBuffer ==
  NULL \in Buffers /\ NULL.size = 0 /\ NULL.text = <<>>
BY DEF NULL, Buffers

\* Filling keeps the size of a buffer, and leaves NULL alone.
LEMMA FilledBuffer ==
  ASSUME NEW b \in Buffers, NEW text
  PROVE  /\ Filled(b, text).size = b.size
         /\ b = NULL => Filled(b, text) = NULL
         /\ b # NULL => Filled(b, text).text = text
         /\ text \in Seq(STRING) => Filled(b, text) \in Buffers
BY DEF Filled, Buffers

Errors == {"OK", "BAD_PARAMETER", "OUT_OF_RESOURCES"}
States == [length : [SlotNames -> Nat], buffer : [SlotNames -> Buffers], error : Errors]

\* A refused call changes nothing but the return code.
LEMMA StateRefused ==
  ASSUME NEW state \in States, NEW code \in Errors
  PROVE  /\ Refused(state, code) \in States
         /\ Refused(state, code).length = state.length
         /\ Refused(state, code).error = code
BY DEF Refused, States

\* Neither name is refused for lack of room when the lengths are those of the
\* names, and a type's name is filled only when it is valid.
LEMMA NamesMade ==
  ASSUME NEW state \in States, state.error = "OK",
         NEW topic, IsText(topic), NEW type, IsText(type), NEW kind \in Kinds,
         NEW to, to.topic \in SlotNames, to.type \in SlotNames,
         to.type_length \in SlotNames, to.topic # to.type, to.topic # to.type_length,
         \/ state.buffer[to.topic] = NULL
         \/ state.length[to.topic] >= TopicLength(topic, kind) + 1,
         \/ state.buffer[to.type] = NULL
         \/ state.length[to.type_length] >= TypeLength(type, kind) + 1
  PROVE  LET after == MakeNames(state, topic, type, kind, to)
             text == DdsTopic(topic, kind) \o <<Nul>>
             name == DdsType(type, kind)
         IN  /\ after \in States
             /\ after.error \in {"OK", "BAD_PARAMETER"}
             /\ after.error = "OK" =>
                  /\ \A s \in SlotNames :
                       after.length[s] =
                         IF s = to.topic THEN TopicLength(topic, kind) + 1
                         ELSE IF s = to.type_length THEN TypeLength(type, kind) + 1
                         ELSE state.length[s]
                  /\ \A s \in SlotNames :
                       after.buffer[s] =
                         IF s = to.topic THEN Filled(state.buffer[s], text)
                         ELSE IF s = to.type THEN Filled(state.buffer[s], name)
                         ELSE state.buffer[s]
                  /\ state.buffer[to.type] # NULL => ValidType(type)
<1> DEFINE after == MakeNames(state, topic, type, kind, to)
           m == TopicLength(topic, kind)
           n == TypeLength(type, kind)
           text == DdsTopic(topic, kind) \o <<Nul>>
           name == DdsType(type, kind)
           x == Filled(state.buffer[to.topic], text)
           y == Filled(state.buffer[to.type], name)
           with_topic ==
             [state EXCEPT !.buffer[to.topic] = Filled(@, text), !.length[to.topic] = m + 1]
           with_both ==
             [with_topic EXCEPT !.buffer[to.type] = Filled(@, name),
                                !.length[to.type_length] = n + 1]
           refused == state.buffer[to.type] # NULL /\ ~ValidType(type)
<1>0. m \in Nat /\ n \in Nat
  BY DdsTopicFits, DdsTypeFits
<1> HIDE DEF m, n
<1>1. m + 1 \in Nat /\ n + 1 \in Nat
  BY <1>0
<1>2. text \in Seq(STRING)
  <2>1. DdsTopic(topic, kind) \in Seq(STRING) /\ <<Nul>> \in Seq(STRING)
    <3>1. IsText(<<Prefix[kind]>>) /\ IsText(<<Nul>>)
      BY Lengths, WidthOfPiece
    <3> QED
      BY <3>1, Joined, TextElements DEF DdsTopic
  <2> QED
    BY <2>1, Joined
<1>3. ValidType(type) => name \in Seq(STRING)
  BY DdsTypeFits, TextElements
<1>4. /\ state.buffer[to.topic] \in Buffers /\ state.buffer[to.type] \in Buffers
      /\ state.buffer \in [SlotNames -> Buffers] /\ state.length \in [SlotNames -> Nat]
  BY DEF States
<1>5. after = IF refused THEN Refused(with_topic, "BAD_PARAMETER") ELSE with_both
  <2> HIDE DEF with_topic, with_both, refused
  <2>1. /\ state.buffer[to.topic] = NULL \/ state.length[to.topic] >= m + 1
        /\ state.buffer[to.type] = NULL \/ state.length[to.type_length] >= n + 1
    BY DEF m, n
  <2> QED
    BY <2>1 DEF MakeNames, LengthOut, m, n, with_topic, with_both, refused
<1> HIDE DEF text, name, after
<1>6. x \in Buffers
  BY <1>2, <1>4, FilledBuffer
<1> HIDE DEF x
<1>7. /\ with_topic \in States /\ with_topic.error = "OK"
      /\ with_topic.length = [state.length EXCEPT ![to.topic] = m + 1]
      /\ with_topic.buffer = [state.buffer EXCEPT ![to.topic] = x]
  <2>1. with_topic = [state EXCEPT !.buffer[to.topic] = x, !.length[to.topic] = m + 1]
    BY DEF x
  <2> HIDE DEF with_topic
  <2>2. with_topic \in States
    BY <1>1, <1>6, <2>1 DEF States
  <2>3. /\ with_topic.length = [state.length EXCEPT ![to.topic] = m + 1]
        /\ with_topic.buffer = [state.buffer EXCEPT ![to.topic] = x]
        /\ with_topic.error = state.error
    BY <2>1 DEF States
  <2> QED
    BY <2>2, <2>3
<1> HIDE DEF with_topic
<1>8. with_topic.buffer[to.type] = state.buffer[to.type]
  BY <1>4, <1>7
<1>9. CASE refused
  <2>1. after = Refused(with_topic, "BAD_PARAMETER")
    BY <1>5, <1>9
  <2>2. after.error = "BAD_PARAMETER" /\ after \in States
    BY <1>7, <2>1, StateRefused DEF Errors
  <2> QED
    BY <2>2 DEF after
<1>10. CASE ~refused
  <2>1. y \in Buffers
    <3>1. CASE state.buffer[to.type] = NULL
      BY <3>1, NullBuffer DEF Filled
    <3>2. CASE ValidType(type)
      BY <1>3, <1>4, <3>2, FilledBuffer
    <3> QED
      BY <1>10, <3>1, <3>2
  <2>2. after = [with_topic EXCEPT !.buffer[to.type] = y, !.length[to.type_length] = n + 1]
    BY <1>5, <1>8, <1>10
  <2> HIDE DEF y
  <2>3. after \in States
    BY <1>1, <1>7, <2>1, <2>2 DEF States
  <2>5. /\ after.error = "OK"
        /\ after.length = [with_topic.length EXCEPT ![to.type_length] = n + 1]
        /\ after.buffer = [with_topic.buffer EXCEPT ![to.type] = y]
    BY <1>7, <2>2 DEF States
  <2>4. \A s \in SlotNames :
          /\ after.length[s] = IF s = to.topic THEN m + 1
                               ELSE IF s = to.type_length THEN n + 1 ELSE state.length[s]
          /\ after.buffer[s] = IF s = to.topic THEN x
                               ELSE IF s = to.type THEN y ELSE state.buffer[s]
    BY <1>4, <1>7, <2>5
  <2>6. \A s \in SlotNames :
          /\ s = to.topic => Filled(state.buffer[s], text) = x
          /\ s = to.type => Filled(state.buffer[s], name) = y
    BY DEF x, y
  <2> HIDE DEF refused
  <2>7. state.buffer[to.type] # NULL => ValidType(type)
    BY <1>10 DEF refused
  <2>8. \A s \in SlotNames :
          after.buffer[s] = IF s = to.topic THEN Filled(state.buffer[s], text)
                            ELSE IF s = to.type THEN Filled(state.buffer[s], name)
                            ELSE state.buffer[s]
    BY <2>4, <2>6
  <2> QED
    BY <2>3, <2>4, <2>5, <2>7, <2>8 DEF after, m, n, text, name
<1> QED
  BY <1>9, <1>10

\* The names that a call works with are texts.
LEMMA CallNames ==
  ASSUME NEW c \in Calls
  PROVE  /\ IsText(c.topic) /\ IsText(c.type) /\ IsText(ServiceTopic(c))
         /\ IsText(OwnTopic(c)) /\ OwnKind(c) \in Kinds
         /\ "default" \in Kinds /\ "request" \in Kinds /\ "response" \in Kinds
         /\ c.helper \in {"publisher", "subscription", "service"}
<1>1. IsText(c.topic) /\ IsText(c.type) /\ IsText(<<NodeName>>)
  BY NamesAssumption DEF Calls
<1>2. IsText(ServiceTopic(c))
  <2>1. IsText(<<"/">>) /\ IsText(<<NodeName>> \o <<"/">>)
    BY <1>1, Lengths, WidthOfPiece, WidthOfJoined
  <2>2. <<NodeName, "/">> = <<NodeName>> \o <<"/">>
    OBVIOUS
  <2> QED
    BY <1>1, <2>1, <2>2, WidthOfJoined DEF ServiceTopic
<1> QED
  BY <1>1, <1>2 DEF OwnTopic, OwnKind, Kinds, Calls

\* What a buffer may become: a NULL one stays NULL, and none changes its size.
WrittenIn(after, before, texts) ==
  /\ after.size = before.size
  /\ before = NULL => after = NULL
  /\ after.text \in {before.text} \cup texts

TopicText(c, kind) == DdsTopic(OwnTopic(c), kind) \o <<Nul>>
TypeTexts(c, kinds) ==
  {text \in {DdsType(c.type, kind) : kind \in kinds} : ValidType(c.type)}
OwnKinds(c) == {OwnKind(c)} \cup {kind \in {"response"} : c.helper = "service"}

\* Filling the buffer of a type is one of the writes allowed.
LEMMA TypeFilled ==
  ASSUME NEW c, NEW kind, NEW kinds, kind \in kinds,
         NEW b \in Buffers, b # NULL => ValidType(c.type)
  PROVE  WrittenIn(Filled(b, DdsType(c.type, kind)), b, TypeTexts(c, kinds))
<1>1. CASE b = NULL
  BY <1>1, FilledBuffer, NullBuffer DEF WrittenIn
<1>2. CASE b # NULL
  <2>1. DdsType(c.type, kind) \in TypeTexts(c, kinds)
    BY <1>2 DEF TypeTexts
  <2> QED
    BY <1>2, <2>1, FilledBuffer DEF WrittenIn
<1> QED
  BY <1>1, <1>2

\* Whatever the names, a call with the lengths of a query fills every buffer
\* there is with its name, and changes no length.
ComputedWell(c, state, after) ==
  /\ \A s \in AskedSlots(c) : after.length[s] = Asked(c)[s]
  /\ after.buffer["topic"] = Filled(state.buffer["topic"], TopicText(c, OwnKind(c)))
  /\ WrittenIn(after.buffer["type"], state.buffer["type"], TypeTexts(c, OwnKinds(c)))
  /\ after.buffer["rep_topic"] =
       IF c.helper = "service"
       THEN Filled(state.buffer["rep_topic"], TopicText(c, "response"))
       ELSE state.buffer["rep_topic"]
  /\ WrittenIn(after.buffer["rep_type"], state.buffer["rep_type"],
               TypeTexts(c, OwnKinds(c) \ {"default", "request"}))

ComputedOrRefused(c, state, after) ==
  /\ after \in States
  /\ after.error \in {"OK", "BAD_PARAMETER"}
  /\ after.error = "OK" => ComputedWell(c, state, after)

\* The buffers of a call are among the four.
LEMMA OwnSlots ==
  /\ Own.topic = "topic" /\ Own.type = "type" /\ Own.type_length = "type"
  /\ \A c, b : /\ Reply(c, b).topic = "rep_topic" /\ Reply(c, b).type_length = "rep_type"
               /\ Reply(c, b).type \in {"type", "rep_type"}
  /\ \A s \in {"topic", "type", "rep_topic", "rep_type"} : s \in SlotNames
BY SlotsNamed DEF Own, Reply

\* compute_publisher_topic_names and compute_subscription_topic_names.
LEMMA OwnComputed ==
  ASSUME NEW c \in Calls, c.helper # "service", NEW state \in States, state.error = "OK",
         \/ \A s \in SlotNames : state.buffer[s] = NULL
         \/ \A s \in AskedSlots(c) : state.length[s] = Asked(c)[s]
  PROVE  ComputedOrRefused(c, state, Compute(c, state))
<1> DEFINE after == Compute(c, state)
           made == MakeNames(state, c.topic, c.type, "default", Own)
           m == TopicLength(c.topic, "default") + 1
           n == TypeLength(c.type, "default") + 1
<1>1. /\ OwnTopic(c) = c.topic /\ OwnKind(c) = "default"
      /\ AskedSlots(c) = {"topic", "type"}
      /\ Asked(c)["topic"] = m /\ Asked(c)["type"] = n
  BY DEF OwnTopic, OwnKind, AskedSlots, Asked
<1>2. after = IF c.topic = <<>> \/ c.type = <<>> THEN Refused(state, "BAD_PARAMETER")
              ELSE made
  <2>1. WriterKind(c.helper) = "default"
    BY CallNames DEF WriterKind
  <2> QED
    BY <2>1 DEF Compute, WriterNames
<1>3. /\ made \in States
      /\ made.error \in {"OK", "BAD_PARAMETER"}
      /\ made.error = "OK" =>
           /\ made.length["topic"] = m /\ made.length["type"] = n
           /\ made.buffer["topic"] = Filled(state.buffer["topic"], TopicText(c, "default"))
           /\ made.buffer["type"] = Filled(state.buffer["type"], DdsType(c.type, "default"))
           /\ made.buffer["rep_topic"] = state.buffer["rep_topic"]
           /\ made.buffer["rep_type"] = state.buffer["rep_type"]
           /\ state.buffer["type"] # NULL => ValidType(c.type)
  <2>1. /\ state.buffer["topic"] = NULL \/ state.length["topic"] >= m
        /\ state.buffer["type"] = NULL \/ state.length["type"] >= n
    <3>1. m \in Nat /\ n \in Nat
      <4>1. /\ TopicLength(c.topic, "default") \in Nat
            /\ TypeLength(c.type, "default") \in Nat
        BY CallNames, DdsTopicFits, DdsTypeFits
      <4> QED
        BY <4>1
    <3> HIDE DEF m, n
    <3> QED
      BY <1>1, <3>1, OwnSlots
  <2>2. /\ Own.topic \in SlotNames /\ Own.type \in SlotNames
        /\ Own.type_length \in SlotNames
        /\ Own.topic # Own.type /\ Own.topic # Own.type_length
    BY OwnSlots
  <2>3. /\ \/ state.buffer[Own.topic] = NULL
           \/ state.length[Own.topic] >= TopicLength(c.topic, "default") + 1
        /\ \/ state.buffer[Own.type] = NULL
           \/ state.length[Own.type_length] >= TypeLength(c.type, "default") + 1
    BY <2>1, OwnSlots
  <2>4. IsText(c.topic) /\ IsText(c.type) /\ "default" \in Kinds
    BY CallNames
  <2>5. /\ made \in States
        /\ made.error \in {"OK", "BAD_PARAMETER"}
        /\ made.error = "OK" =>
             /\ \A s \in SlotNames :
                  made.length[s] = IF s = Own.topic THEN m
                                   ELSE IF s = Own.type_length THEN n ELSE state.length[s]
             /\ \A s \in SlotNames :
                  made.buffer[s] =
                    IF s = Own.topic THEN Filled(state.buffer[s], DdsTopic(c.topic, "default") \o <<Nul>>)
                    ELSE IF s = Own.type THEN Filled(state.buffer[s], DdsType(c.type, "default"))
                    ELSE state.buffer[s]
             /\ state.buffer[Own.type] # NULL => ValidType(c.type)
    BY <2>2, <2>3, <2>4, NamesMade
  <2>6. TopicText(c, "default") = DdsTopic(c.topic, "default") \o <<Nul>>
    BY <1>1 DEF TopicText
  <2> HIDE DEF made, m, n
  <2> QED
    BY <2>5, <2>6, OwnSlots
<1>4. state.buffer["type"] \in Buffers
  BY OwnSlots DEF States
<1> HIDE DEF made, m, n
<1>5. ASSUME made.error = "OK"
      PROVE  ComputedWell(c, state, made)
  <2>1. WrittenIn(made.buffer["type"], state.buffer["type"], TypeTexts(c, OwnKinds(c)))
    BY <1>1, <1>3, <1>4, <1>5, TypeFilled DEF OwnKinds
  <2> QED
    BY <1>1, <1>3, <1>5, <2>1 DEF ComputedWell, WrittenIn
<1>6. CASE c.topic = <<>> \/ c.type = <<>>
  BY <1>2, <1>6, StateRefused DEF ComputedOrRefused, Errors
<1>7. CASE ~(c.topic = <<>> \/ c.type = <<>>)
  BY <1>2, <1>3, <1>5, <1>7 DEF ComputedOrRefused
<1> QED
  BY <1>6, <1>7

\* Two writes one after the other are as good as one.
LEMMA WrittenTwice ==
  ASSUME NEW a, NEW b, NEW d, NEW texts, WrittenIn(b, a, texts), WrittenIn(d, b, texts)
  PROVE  WrittenIn(d, a, texts)
BY DEF WrittenIn

\* The names of the requests, then those of the replies: in the buffers of the
\* former what the latter have not been written to.
LEMMA ServiceComputed ==
  ASSUME NEW c \in Calls, c.helper = "service", NEW state \in States, state.error = "OK",
         \/ \A s \in SlotNames : state.buffer[s] = NULL
         \/ \A s \in AskedSlots(c) : state.length[s] = Asked(c)[s]
  PROVE  ComputedOrRefused(c, state, Compute(c, state))
<1> DEFINE topic == ServiceTopic(c)
           made == MakeNames(state, topic, c.type, "request", Own)
           R == Reply(c, state.buffer)
           replies == MakeNames(made, topic, c.type, "response", R)
           after == Compute(c, state)
           m == TopicLength(topic, "request") + 1
           n == TypeLength(c.type, "request") + 1
           rm == TopicLength(topic, "response") + 1
           rn == TypeLength(c.type, "response") + 1
           x == TopicText(c, "request")
           rx == TopicText(c, "response")
           y == DdsType(c.type, "request")
           ry == DdsType(c.type, "response")
<1>1. /\ OwnTopic(c) = topic /\ OwnKind(c) = "request"
      /\ AskedSlots(c) = {"topic", "type", "rep_topic", "rep_type"}
      /\ Asked(c)["topic"] = m /\ Asked(c)["type"] = n
      /\ Asked(c)["rep_topic"] = rm /\ Asked(c)["rep_type"] = rn
      /\ OwnKinds(c) = {"request", "response"}
  BY SlotsNamed DEF OwnTopic, OwnKind, AskedSlots, Asked, OwnKinds
<1>2. m \in Nat /\ n \in Nat /\ rm \in Nat /\ rn \in Nat
  <2>1. /\ TopicLength(topic, "request") \in Nat /\ TopicLength(topic, "response") \in Nat
        /\ TypeLength(c.type, "request") \in Nat /\ TypeLength(c.type, "response") \in Nat
    BY CallNames, DdsTopicFits, DdsTypeFits
  <2> QED
    BY <2>1
<1>3. after = IF made.error # "OK" THEN made
              ELSE IF topic = <<>> \/ c.type = <<>> THEN Refused(made, "BAD_PARAMETER")
              ELSE replies
  BY DEF Compute, ReaderNames, WriterNames, ReaderKind, WriterKind
<1>4. IsText(topic) /\ IsText(c.type) /\ "request" \in Kinds /\ "response" \in Kinds
  BY CallNames
<1>5. /\ x = DdsTopic(topic, "request") \o <<Nul>>
      /\ rx = DdsTopic(topic, "response") \o <<Nul>>
  BY <1>1 DEF TopicText
<1>6. /\ made \in States
      /\ made.error \in {"OK", "BAD_PARAMETER"}
      /\ made.error = "OK" =>
           /\ made.length["topic"] = m /\ made.length["type"] = n
           /\ made.length["rep_topic"] = state.length["rep_topic"]
           /\ made.length["rep_type"] = state.length["rep_type"]
           /\ made.buffer["topic"] = Filled(state.buffer["topic"], x)
           /\ made.buffer["type"] = Filled(state.buffer["type"], y)
           /\ made.buffer["rep_topic"] = state.buffer["rep_topic"]
           /\ made.buffer["rep_type"] = state.buffer["rep_type"]
           /\ state.buffer["type"] # NULL => ValidType(c.type)
  <2>1. /\ state.buffer["topic"] = NULL \/ state.length["topic"] >= m
        /\ state.buffer["type"] = NULL \/ state.length["type"] >= n
    <3> HIDE DEF m, n
    <3> QED
      BY <1>1, <1>2, OwnSlots
  <2>2. /\ Own.topic \in SlotNames /\ Own.type \in SlotNames
        /\ Own.type_length \in SlotNames
        /\ Own.topic # Own.type /\ Own.topic # Own.type_length
    BY OwnSlots
  <2>3. /\ \/ state.buffer[Own.topic] = NULL
           \/ state.length[Own.topic] >= TopicLength(topic, "request") + 1
        /\ \/ state.buffer[Own.type] = NULL
           \/ state.length[Own.type_length] >= TypeLength(c.type, "request") + 1
    BY <2>1, OwnSlots
  <2> HIDE DEF topic
  <2>4. /\ made \in States
        /\ made.error \in {"OK", "BAD_PARAMETER"}
        /\ made.error = "OK" =>
             /\ \A s \in SlotNames :
                  made.length[s] = IF s = Own.topic THEN m
                                   ELSE IF s = Own.type_length THEN n ELSE state.length[s]
             /\ \A s \in SlotNames :
                  made.buffer[s] =
                    IF s = Own.topic THEN Filled(state.buffer[s], DdsTopic(topic, "request") \o <<Nul>>)
                    ELSE IF s = Own.type THEN Filled(state.buffer[s], y)
                    ELSE state.buffer[s]
             /\ state.buffer[Own.type] # NULL => ValidType(c.type)
    BY <1>4, <2>2, <2>3, NamesMade
  <2> HIDE DEF made, m, n, x, y
  <2> QED
    BY <1>5, <2>4, OwnSlots
<1> HIDE DEF made, m, n, x, y, after, topic
<1>7. \A s \in SlotNames : state.buffer[s] \in Buffers
  BY DEF States
<1>8. ASSUME made.error = "OK"
      PROVE  /\ replies \in States
             /\ replies.error \in {"OK", "BAD_PARAMETER"}
             /\ replies.error = "OK" =>
                  /\ replies.length["topic"] = m /\ replies.length["type"] = n
                  /\ replies.length["rep_topic"] = rm /\ replies.length["rep_type"] = rn
                  /\ replies.buffer["topic"] = made.buffer["topic"]
                  /\ replies.buffer["rep_topic"] = Filled(state.buffer["rep_topic"], rx)
                  /\ \A s \in {"type", "rep_type"} :
                       replies.buffer[s] =
                         IF s = R.type THEN Filled(made.buffer[s], ry) ELSE made.buffer[s]
                  /\ made.buffer[R.type] # NULL => ValidType(c.type)
  <2>1. /\ R.topic = "rep_topic" /\ R.type_length = "rep_type"
        /\ R.type \in {"type", "rep_type"}
    BY OwnSlots
  <2> HIDE DEF R, rm, rn
  <2>2. /\ made.buffer["rep_topic"] = NULL \/ made.length["rep_topic"] >= rm
        /\ made.buffer[R.type] = NULL \/ made.length["rep_type"] >= rn
    <3>1. CASE \A s \in SlotNames : state.buffer[s] = NULL
      <4>1. state.buffer["type"] = NULL /\ state.buffer["rep_type"] = NULL
            /\ state.buffer["rep_topic"] = NULL
        BY <3>1, OwnSlots
      <4>2. Filled(state.buffer["type"], y) = NULL
        BY <4>1 DEF Filled
      <4> QED
        BY <1>6, <1>8, <2>1, <4>1, <4>2
    <3>2. CASE \A s \in AskedSlots(c) : state.length[s] = Asked(c)[s]
      <4>1. made.length["rep_topic"] = rm /\ made.length["rep_type"] = rn
        BY <1>1, <1>6, <1>8, <3>2
      <4> QED
        BY <1>2, <4>1
    <3> QED
      BY <3>1, <3>2
  <2>3. /\ R.topic \in SlotNames /\ R.type \in SlotNames
        /\ R.type_length \in SlotNames
        /\ R.topic # R.type /\ R.topic # R.type_length
    BY <2>1, OwnSlots
  <2>4. /\ \/ made.buffer[R.topic] = NULL
           \/ made.length[R.topic] >= TopicLength(topic, "response") + 1
        /\ \/ made.buffer[R.type] = NULL
           \/ made.length[R.type_length] >= TypeLength(c.type, "response") + 1
    BY <2>1, <2>2 DEF rm, rn
  <2>5. /\ replies \in States
        /\ replies.error \in {"OK", "BAD_PARAMETER"}
        /\ replies.error = "OK" =>
             /\ \A s \in SlotNames :
                  replies.length[s] =
                    IF s = R.topic THEN TopicLength(topic, "response") + 1
                    ELSE IF s = R.type_length THEN TypeLength(c.type, "response") + 1
                    ELSE made.length[s]
             /\ \A s \in SlotNames :
                  replies.buffer[s] =
                    IF s = R.topic THEN Filled(made.buffer[s], DdsTopic(topic, "response") \o <<Nul>>)
                    ELSE IF s = R.type THEN Filled(made.buffer[s], ry)
                    ELSE made.buffer[s]
             /\ made.buffer[R.type] # NULL => ValidType(c.type)
    BY <1>4, <1>6, <1>8, <2>3, <2>4, NamesMade
  <2> HIDE DEF replies, rx, ry
  <2> QED
    BY <1>5, <1>6, <1>8, <2>1, <2>5, OwnSlots DEF rm, rn
<1> HIDE DEF replies, rx
<1>9. ASSUME made.error = "OK", replies.error = "OK"
      PROVE  ComputedWell(c, state, replies)
  <2> DEFINE texts == TypeTexts(c, {"request", "response"})
             rep_texts == TypeTexts(c, {"response"})
  <2>1. /\ R.type \in {"type", "rep_type"}
        /\ made.buffer["type"] \in Buffers /\ made.buffer["rep_type"] \in Buffers
        /\ state.buffer["type"] \in Buffers /\ state.buffer["rep_type"] \in Buffers
        /\ made.buffer["rep_type"] = state.buffer["rep_type"]
    BY <1>6, <1>9, OwnSlots DEF States
  <2>2. WrittenIn(made.buffer["type"], state.buffer["type"], texts)
    BY <1>6, <1>9, <2>1, TypeFilled DEF y
  <2> HIDE DEF R
  <2>3. CASE R.type = "type"
    <3>1. /\ replies.buffer["type"] = Filled(made.buffer["type"], ry)
          /\ replies.buffer["rep_type"] = state.buffer["rep_type"]
          /\ made.buffer["type"] # NULL => ValidType(c.type)
      BY <1>8, <1>9, <2>1, <2>3
    <3>2. WrittenIn(replies.buffer["type"], made.buffer["type"], texts)
      BY <2>1, <3>1, TypeFilled
    <3>3. WrittenIn(replies.buffer["type"], state.buffer["type"], texts)
      BY <2>2, <3>2, WrittenTwice
    <3>4. WrittenIn(replies.buffer["rep_type"], state.buffer["rep_type"], rep_texts)
      BY <3>1 DEF WrittenIn
    <3>5. OwnKinds(c) \ {"default", "request"} = {"response"}
      BY <1>1
    <3> QED
      BY <1>1, <1>6, <1>8, <1>9, <3>3, <3>4, <3>5 DEF ComputedWell, x, rx
  <2>4. CASE R.type = "rep_type"
    <3>1. /\ replies.buffer["type"] = made.buffer["type"]
          /\ replies.buffer["rep_type"] = Filled(state.buffer["rep_type"], ry)
          /\ state.buffer["rep_type"] # NULL => ValidType(c.type)
      BY <1>8, <1>9, <2>1, <2>4
    <3>2. WrittenIn(replies.buffer["rep_type"], state.buffer["rep_type"], rep_texts)
      BY <2>1, <3>1, TypeFilled
    <3>3. OwnKinds(c) \ {"default", "request"} = {"response"}
      BY <1>1
    <3> QED
      BY <1>1, <1>6, <1>8, <1>9, <2>2, <3>1, <3>2, <3>3 DEF ComputedWell, x, rx
  <2> QED
    BY <2>1, <2>3, <2>4
<1>10. CASE made.error # "OK"
  BY <1>3, <1>6, <1>10 DEF ComputedOrRefused, after
<1>11. CASE made.error = "OK" /\ (topic = <<>> \/ c.type = <<>>)
  BY <1>3, <1>6, <1>11, StateRefused DEF ComputedOrRefused, Errors, after
<1>12. CASE made.error = "OK" /\ ~(topic = <<>> \/ c.type = <<>>)
  BY <1>3, <1>8, <1>9, <1>12 DEF ComputedOrRefused, after
<1> QED
  BY <1>6, <1>10, <1>11, <1>12

\* Every helper, by kind.
LEMMA CallComputed ==
  ASSUME NEW c \in Calls, NEW state \in States, state.error = "OK",
         \/ \A s \in SlotNames : state.buffer[s] = NULL
         \/ \A s \in AskedSlots(c) : state.length[s] = Asked(c)[s]
  PROVE  ComputedOrRefused(c, state, Compute(c, state))
<1>1. CASE c.helper = "service"
  BY <1>1, ServiceComputed
<1>2. CASE c.helper # "service"
  BY <1>2, OwnComputed
<1> QED
  BY <1>1, <1>2

\* The names fit in buffers as long as a query says: also that of a reply's type
\* in the buffer of the request's, where the shorter suffix is made up for by the
\* "::" counted twice.
LEMMA TextsFit ==
  ASSUME NEW c \in Calls
  PROVE  /\ Asked(c) \in [SlotNames -> Nat \ {0}]
         /\ Width(TopicText(c, OwnKind(c))) = Asked(c)["topic"]
         /\ Width(TopicText(c, "response")) = Asked(c)["rep_topic"]
         /\ \A kind \in Kinds : Prefixed(TopicText(c, kind), kind)
         /\ \A text \in TypeTexts(c, OwnKinds(c)) : Width(text) <= Asked(c)["type"]
         /\ \A text \in TypeTexts(c, OwnKinds(c) \ {"default", "request"}) :
              Width(text) <= Asked(c)["rep_type"]
<1>1. /\ IsText(OwnTopic(c)) /\ IsText(c.type) /\ OwnKind(c) \in Kinds
      /\ "response" \in Kinds /\ "request" \in Kinds /\ "default" \in Kinds
  BY CallNames
<1>2. /\ Asked(c)["topic"] = TopicLength(OwnTopic(c), OwnKind(c)) + 1
      /\ Asked(c)["type"] = TypeLength(c.type, OwnKind(c)) + 1
      /\ Asked(c)["rep_topic"] = TopicLength(OwnTopic(c), "response") + 1
      /\ Asked(c)["rep_type"] = TypeLength(c.type, "response") + 1
      /\ DOMAIN Asked(c) = {"topic", "type", "rep_topic", "rep_type"}
  BY DEF Asked
<1>3. /\ Width(TopicText(c, OwnKind(c))) = Asked(c)["topic"]
      /\ Width(TopicText(c, "response")) = Asked(c)["rep_topic"]
      /\ \A kind \in Kinds : Prefixed(TopicText(c, kind), kind)
  BY <1>1, <1>2, DdsTopicFits DEF TopicText, Prefixed
<1> DEFINE w == Width(c.type)
<1>4. w \in Nat
  BY <1>1, WidthType
<1>5. /\ TypeLength(c.type, "default") = w + 4 + 1 + 2
      /\ TypeLength(c.type, "request") = w + 4 + 9 + 2
      /\ TypeLength(c.type, "response") = w + 4 + 10 + 2
      /\ Len(Suffix["default"]) = 1 /\ Len(Suffix["request"]) = 9
      /\ Len(Suffix["response"]) = 10
  BY LengthsAssumption DEF TypeLength, IsString
<1>6. ASSUME NEW kind \in Kinds, ValidType(c.type)
      PROVE  Width(DdsType(c.type, kind)) <= w + 4 + Len(Suffix[kind])
  BY <1>1, <1>6, DdsTypeFits
<1>7. ASSUME NEW kind \in Kinds, ValidType(c.type)
      PROVE  Width(DdsType(c.type, kind)) \in Nat
  BY <1>1, <1>7, DdsTypeFits, WidthType
<1>8. ASSUME NEW text \in TypeTexts(c, OwnKinds(c))
      PROVE  Width(text) <= Asked(c)["type"]
  <2>1. PICK kind \in OwnKinds(c) : text = DdsType(c.type, kind) /\ ValidType(c.type)
    BY DEF TypeTexts
  <2>2. CASE c.helper = "service"
    <3>1. kind \in {"request", "response"} /\ OwnKind(c) = "request"
      BY <2>2 DEF OwnKinds, OwnKind
    <3>2. Width(text) \in Nat /\ Width(text) <= w + 4 + Len(Suffix[kind])
      BY <1>1, <1>6, <1>7, <2>1, <3>1
    <3>3. Asked(c)["type"] = w + 16
      BY <1>2, <1>4, <1>5, <3>1
    <3>4. Len(Suffix[kind]) = 9 \/ Len(Suffix[kind]) = 10
      BY <1>5, <3>1
    <3> DEFINE suffix == Len(Suffix[kind])
    <3> HIDE DEF w, suffix
    <3>5. (suffix = 9 \/ suffix = 10) /\ Width(text) <= w + 4 + suffix /\ Width(text) \in Nat
      BY <3>2, <3>4 DEF suffix
    <3>6. Width(text) <= w + 16
      BY <1>4, <3>5
    <3> QED
      BY <3>3, <3>6
  <2>3. CASE c.helper # "service"
    <3>1. kind = "default" /\ OwnKind(c) = "default"
      BY <2>3 DEF OwnKinds, OwnKind
    <3>2. Width(text) \in Nat /\ Width(text) <= w + 4 + 1
      BY <1>1, <1>5, <1>6, <1>7, <2>1, <3>1
    <3>3. Asked(c)["type"] = w + 8
      BY <1>2, <1>4, <1>5, <3>1
    <3> HIDE DEF w
    <3> QED
      BY <1>4, <3>2, <3>3
  <2> QED
    BY <2>2, <2>3
<1>9. ASSUME NEW text \in TypeTexts(c, OwnKinds(c) \ {"default", "request"})
      PROVE  Width(text) <= Asked(c)["rep_type"]
  <2>1. PICK kind \in OwnKinds(c) \ {"default", "request"} :
          text = DdsType(c.type, kind) /\ ValidType(c.type)
    BY DEF TypeTexts
  <2>2. kind = "response"
    BY <2>1 DEF OwnKinds, OwnKind
  <2>3. Width(text) \in Nat /\ Width(text) <= w + 4 + 10
    BY <1>1, <1>5, <1>6, <1>7, <2>1, <2>2
  <2>4. Asked(c)["rep_type"] = w + 17
    BY <1>2, <1>4, <1>5
  <2> HIDE DEF w
  <2> QED
    BY <1>4, <2>3, <2>4
<1>10. Asked(c) \in [SlotNames -> Nat \ {0}]
  <2>1. \A s \in DOMAIN Asked(c) : Asked(c)[s] \in Nat \ {0}
    <3>1. /\ TopicLength(OwnTopic(c), OwnKind(c)) \in Nat
          /\ TopicLength(OwnTopic(c), "response") \in Nat
          /\ TypeLength(c.type, OwnKind(c)) \in Nat
          /\ TypeLength(c.type, "response") \in Nat
      BY <1>1, DdsTopicFits, DdsTypeFits
    <3> QED
      BY <1>2, <3>1
  <2>2. Asked(c) = [s \in DOMAIN Asked(c) |-> Asked(c)[s]]
    BY DEF Asked
  <2> HIDE DEF w
  <2> QED
    BY <1>2, <2>1, <2>2, SlotsNamed
<1> QED
  BY <1>3, <1>8, <1>9, <1>10

\* An empty buffer holds nothing.
LEMMA EmptyFits ==
  Width(<<>>) = 0
<1>1. Characters(<<>>) = {}
  BY DEF Characters
<1> QED
  BY <1>1, FS_EmptySet DEF Width

\* A service has four buffers, the other helpers two.
LEMMA NeededSlots ==
  ASSUME NEW helper
  PROVE  /\ DOMAIN Needed(helper) = IF helper = "service" THEN 1 .. 4 ELSE 1 .. 2
         /\ Len(Needed(helper)) = IF helper = "service" THEN 4 ELSE 2
<1>1. Len(Slots) = 4 /\ \A i \in 1 .. 4 : Slots[i] \in {Slots[j] : j \in 1 .. 4}
  BY DEF Slots
<1> DEFINE n == IF helper = "service" THEN 4 ELSE 2
<1>2. n \in 1 .. 4
  OBVIOUS
<1> HIDE DEF n
<1>3. /\ SubSeq(Slots, 1, n) \in Seq({Slots[j] : j \in 1 .. 4})
      /\ Len(SubSeq(Slots, 1, n)) = n
  BY <1>1, <1>2, SubSeqProperties
<1>4. DOMAIN SubSeq(Slots, 1, n) = 1 .. n
  BY <1>3, LenProperties
<1> QED
  BY <1>3, <1>4 DEF Needed, n

-----------------------------------------------------------------------------
(* The steps. *)

\* Before any allocation every buffer is NULL.
LEMMA NoBuffersNull ==
  /\ NoBuffers \in [SlotNames -> Buffers]
  /\ \A s \in SlotNames : NoBuffers[s] = NULL
BY NullBuffer DEF NoBuffers

\* No call has been made.
LEMMA NInit ==
  Init => NInv
<1> SUFFICES ASSUME Init PROVE NInv
  OBVIOUS
<1>1. NamesTypeOK
  BY NoBuffersNull DEF Init, NamesTypeOK, Stages
<1> QED
  BY <1>1 DEF Init, NInv, QuerySuffices

\* The state that a call of the C functions begins in.
LEMMA StateBefore ==
  ASSUME NInv, stage \in {"query", "fill"}
  PROVE  /\ State \in States /\ State.error = "OK" /\ call \in Calls
         /\ State.buffer = buffer /\ State.length = length
         /\ \/ \A s \in SlotNames : State.buffer[s] = NULL
            \/ \A s \in AskedSlots(call) : State.length[s] = Asked(call)[s]
         /\ ComputedOrRefused(call, State, Compute(call, State))
<1>1. error = "OK" /\ NamesTypeOK
  BY DEF NInv
<1>2. State.buffer = buffer /\ State.length = length /\ State.error = "OK"
  BY <1>1 DEF State
<1>3. State \in States /\ call \in Calls
  BY <1>1 DEF State, States, NamesTypeOK, Errors
<1>4. \/ \A s \in SlotNames : State.buffer[s] = NULL
      \/ \A s \in AskedSlots(call) : State.length[s] = Asked(call)[s]
  <2>1. CASE stage = "query"
    BY <1>2, <2>1, NoBuffersNull DEF NInv
  <2>2. CASE stage = "fill"
    BY <1>2, <2>2 DEF NInv, Prepared
  <2> QED
    BY <2>1, <2>2
<1>5. ComputedOrRefused(call, State, Compute(call, State))
  BY <1>2, <1>3, <1>4, CallComputed
<1> QED
  BY <1>2, <1>3, <1>4, <1>5

\* The query sets the lengths that Prepared is about.
LEMMA QueryStep ==
  ASSUME NInv, Query
  PROVE  NInv'
<1> DEFINE after == Compute(call, State)
<1>1. /\ stage = "query" /\ buffer = NoBuffers
      /\ length' = after.length /\ error' = after.error
      /\ stage' = IF after.error = "OK" THEN "alloc" ELSE "failed"
      /\ call' = call /\ buffer' = buffer
  BY DEF Query, NInv
<1>2. /\ call \in Calls
      /\ after \in States /\ after.error \in {"OK", "BAD_PARAMETER"}
      /\ after.error = "OK" => \A s \in AskedSlots(call) : after.length[s] = Asked(call)[s]
  BY <1>1, StateBefore DEF ComputedOrRefused, ComputedWell
<1> HIDE DEF after
<1>3. NamesTypeOK'
  <2>1. length' \in [SlotNames -> Nat] /\ buffer' \in [SlotNames -> Buffers]
    BY <1>1, <1>2, NoBuffersNull DEF States
  <2> QED
    BY <1>1, <1>2, <2>1 DEF NamesTypeOK, Stages
<1>4. error' # "OUT_OF_RESOURCES"
  BY <1>1, <1>2
<1>5. CASE after.error = "OK"
  <2>1. Prepared'
    BY <1>1, <1>2, <1>5, NoBuffersNull DEF Prepared
  <2> QED
    BY <1>1, <1>3, <1>4, <1>5, <2>1 DEF NInv, QuerySuffices
<1>6. CASE after.error # "OK"
  <2>1. FailedWell'
    BY <1>1, <1>2, <1>6 DEF FailedWell
  <2> QED
    BY <1>1, <1>3, <1>4, <1>6, <2>1 DEF NInv, QuerySuffices
<1> QED
  BY <1>5, <1>6

\* An allocation adds a buffer of the queried length.
LEMMA AllocStep ==
  ASSUME NInv, NEW i \in DOMAIN Slots, Alloc(i)
  PROVE  NInv'
<1> DEFINE slot == Slots[i]
           new == [size |-> length[slot], text |-> <<>>]
<1>1. /\ stage = "alloc" /\ stage' \in {"fill", "alloc"}
      /\ buffer' = [buffer EXCEPT ![slot] = new]
      /\ call' = call /\ length' = length /\ error' = error
      /\ i \in DOMAIN Needed(call.helper)
      /\ \A j \in 1 .. i - 1 : buffer[Slots[j]] # NULL
      /\ stage' = "fill" => i = Len(Needed(call.helper))
  BY DEF Alloc, Allocated
<1>2. NamesTypeOK /\ Prepared /\ error = "OK"
  BY <1>1 DEF NInv
<1>3. slot \in SlotNames /\ slot \in AskedSlots(call)
  <2>1. CASE call.helper = "service"
    BY <2>1, SlotsNamed DEF AskedSlots
  <2>2. CASE call.helper # "service"
    <3>1. i \in 1 .. 2
      BY <1>1, <2>2, NeededSlots
    <3>2. Slots[1] = "topic" /\ Slots[2] = "type"
      BY DEF Slots
    <3>3. i = 1 \/ i = 2
      BY <3>1
    <3>4. slot \in {"topic", "type"}
      BY <3>2, <3>3
    <3> QED
      BY <2>2, <3>4, SlotsNamed DEF AskedSlots
  <2> QED
    BY <2>1, <2>2
<1> HIDE DEF slot
<1>4. new = [size |-> Asked(call)[slot], text |-> <<>>] /\ new \in Buffers
  <2>1. length[slot] = Asked(call)[slot] /\ length[slot] \in Nat
    BY <1>2, <1>3 DEF Prepared, NamesTypeOK
  <2>2. <<>> \in Seq(STRING)
    BY EmptySeq
  <2> QED
    BY <2>1, <2>2 DEF Buffers
<1>5. new # NULL
  <2>1. Asked(call)[slot] # 0
    BY <1>2, <1>3, TextsFit DEF NamesTypeOK
  <2> QED
    BY <1>4, <2>1, NullBuffer
<1> HIDE DEF new
<1>6. /\ buffer' \in [SlotNames -> Buffers]
      /\ \A s \in SlotNames : buffer'[s] = IF s = slot THEN new ELSE buffer[s]
  BY <1>1, <1>2, <1>3, <1>4 DEF NamesTypeOK
<1>7. NamesTypeOK'
  BY <1>1, <1>2, <1>6 DEF NamesTypeOK, Stages
<1>8. Prepared'
  BY <1>1, <1>2, <1>3, <1>4, <1>6 DEF Prepared
<1>9. ASSUME stage' = "fill"
      PROVE  Complete'
  <2>1. DOMAIN Needed(call.helper) = 1 .. i
    BY <1>1, <1>9, NeededSlots
  <2>2. \A j \in 1 .. i : j \in 1 .. i - 1 \/ j = i
    <3>1. i \in Nat
      BY DEF Slots
    <3> QED
      BY <3>1
  <2>3. \A j \in DOMAIN Needed(call.helper) : Slots[j] \in SlotNames
    BY NeededSlots, SlotsNamed DEF Slots
  <2>4. \A j \in DOMAIN Needed(call.helper) : buffer'[Slots[j]] # NULL
    BY <1>1, <1>6, <1>5, <2>1, <2>2, <2>3 DEF slot
  <2> QED
    BY <1>1, <2>4 DEF Complete
<1> QED
  BY <1>1, <1>2, <1>7, <1>8, <1>9 DEF NInv, QuerySuffices

\* A failed allocation leaves no buffer, or throws later.
LEMMA AllocFailsStep ==
  ASSUME NInv, NEW i \in DOMAIN Slots, AllocFails(i)
  PROVE  NInv'
<1>1. /\ stage = "alloc"
      /\ \/ /\ stage' = "fill" /\ buffer' = buffer /\ error' = error
            /\ i = 2
         \/ stage' = "failed" /\ buffer' = NoBuffers /\ error' = "ERROR"
      /\ call' = call /\ length' = length
      /\ {Slots[j] : j \in 1 .. i - 1} = Allocated
  BY DEF AllocFails, TestsOther
<1>2. NamesTypeOK /\ Prepared /\ error = "OK"
  BY <1>1 DEF NInv
<1>3. NamesTypeOK'
  BY <1>1, <1>2, NoBuffersNull DEF NamesTypeOK, Stages
<1>4. CASE stage' = "fill" /\ buffer' = buffer /\ error' = error /\ i = 2
  <2>1. Prepared'
    BY <1>1, <1>2, <1>4 DEF Prepared
  <2>2. {Slots[j] : j \in 1 .. i - 1} = {"topic"}
    <3>1. 1 .. i - 1 = {1}
      BY <1>4
    <3>2. Slots[1] = "topic"
      BY DEF Slots
    <3> QED
      BY <3>1, <3>2
  <2>3. Complete'
    BY <1>1, <1>4, <2>2 DEF Complete, TopicOnly, Allocated
  <2> QED
    BY <1>2, <1>3, <1>4, <2>1, <2>3 DEF NInv, QuerySuffices
<1>5. CASE stage' = "failed" /\ buffer' = NoBuffers /\ error' = "ERROR"
  <2>1. FailedWell'
    BY <1>5 DEF FailedWell
  <2> QED
    BY <1>3, <1>5, <2>1 DEF NInv, QuerySuffices
<1> QED
  BY <1>1, <1>4, <1>5

\* The widths of what is filled against the sizes of what was prepared.
LEMMA FillStep ==
  ASSUME NInv, Fill
  PROVE  NInv'
<1> DEFINE after == Compute(call, State)
<1>1. /\ stage = "fill"
      /\ length' = after.length /\ error' = after.error
      /\ buffer' = IF after.error = "OK" THEN after.buffer ELSE NoBuffers
      /\ stage' = IF after.error = "OK" THEN "filled" ELSE "failed"
      /\ call' = call
  BY DEF Fill
<1>2. /\ call \in Calls
      /\ after \in States /\ after.error \in {"OK", "BAD_PARAMETER"}
      /\ State.buffer = buffer
      /\ after.error = "OK" => ComputedWell(call, State, after)
  BY <1>1, StateBefore DEF ComputedOrRefused
<1> HIDE DEF after
<1>3. NamesTypeOK'
  <2>1. length' \in [SlotNames -> Nat] /\ buffer' \in [SlotNames -> Buffers]
    BY <1>1, <1>2, NoBuffersNull DEF States
  <2> QED
    BY <1>1, <1>2, <2>1 DEF NamesTypeOK, Stages
<1>4. error' # "OUT_OF_RESOURCES"
  BY <1>1, <1>2
<1>5. CASE after.error # "OK"
  <2>1. FailedWell'
    BY <1>1, <1>2, <1>5 DEF FailedWell
  <2> QED
    BY <1>1, <1>3, <1>4, <1>5, <2>1 DEF NInv, QuerySuffices
<1>6. CASE after.error = "OK"
  <2> DEFINE filled == after.buffer
             Fits(s) == Width(filled[s].text) <= filled[s].size
  <2>1. /\ filled["topic"] = Filled(buffer["topic"], TopicText(call, OwnKind(call)))
        /\ WrittenIn(filled["type"], buffer["type"], TypeTexts(call, OwnKinds(call)))
        /\ filled["rep_topic"] =
             IF call.helper = "service"
             THEN Filled(buffer["rep_topic"], TopicText(call, "response"))
             ELSE buffer["rep_topic"]
        /\ WrittenIn(filled["rep_type"], buffer["rep_type"],
                     TypeTexts(call, OwnKinds(call) \ {"default", "request"}))
    BY <1>2, <1>6 DEF ComputedWell
  <2> HIDE DEF filled
  <2>2. /\ \A s \in SlotNames : buffer[s] \in Buffers
        /\ \A s \in SlotNames :
             buffer[s] # NULL => buffer[s].size = Asked(call)[s] /\ buffer[s].text = <<>>
        /\ \A s \in SlotNames : Asked(call)[s] \in Nat \ {0}
    <3>1. NamesTypeOK /\ Prepared
      BY <1>1 DEF NInv
    <3>2. Asked(call) \in [SlotNames -> Nat \ {0}]
      BY <1>2, TextsFit
    <3> QED
      BY <3>1, <3>2 DEF NamesTypeOK, Prepared
  <2>3. /\ "topic" \in SlotNames /\ "type" \in SlotNames
        /\ "rep_topic" \in SlotNames /\ "rep_type" \in SlotNames
    BY SlotsNamed
  <2>4. ASSUME NEW s \in SlotNames, filled[s] = NULL
        PROVE  Fits(s)
    BY <2>4, NullBuffer, EmptyFits
  <2>5. ASSUME NEW s \in SlotNames, NEW texts,
               WrittenIn(filled[s], buffer[s], texts),
               \A text \in texts : Width(text) <= Asked(call)[s]
        PROVE  Fits(s)
    <3>1. CASE buffer[s] = NULL
      BY <2>4, <2>5, <3>1 DEF WrittenIn
    <3>2. CASE buffer[s] # NULL
      <4>1. filled[s].size = Asked(call)[s] /\ filled[s].text \in {<<>>} \cup texts
        BY <2>2, <2>5, <3>2 DEF WrittenIn
      <4>2. 0 <= Asked(call)[s]
        BY <2>2
      <4> QED
        BY <2>5, <4>1, <4>2, EmptyFits
    <3> QED
      BY <3>1, <3>2
  <2>6. ASSUME NEW s \in SlotNames, NEW text, filled[s] = Filled(buffer[s], text),
               Width(text) = Asked(call)[s]
        PROVE  Fits(s)
    <3>1. CASE buffer[s] = NULL
      BY <2>4, <2>6, <3>1 DEF Filled
    <3>2. CASE buffer[s] # NULL
      <4>1. filled[s].size = Asked(call)[s] /\ filled[s].text = text
        BY <2>2, <2>6, <3>2, FilledBuffer
      <4>2. Asked(call)[s] <= Asked(call)[s]
        BY <2>2
      <4> QED
        BY <2>6, <4>1, <4>2
    <3> QED
      BY <3>1, <3>2
  <2>7. Fits("topic")
    BY <1>2, <2>1, <2>3, <2>6, TextsFit
  <2>8. Fits("type")
    BY <1>2, <2>1, <2>3, <2>5, TextsFit
  <2>9. Fits("rep_type")
    BY <1>2, <2>1, <2>3, <2>5, TextsFit
  <2>10. Fits("rep_topic")
    <3>1. CASE call.helper = "service"
      BY <1>2, <2>1, <2>3, <2>6, <3>1, TextsFit
    <3>2. CASE call.helper # "service"
      <4>1. WrittenIn(filled["rep_topic"], buffer["rep_topic"], {})
        BY <2>1, <3>2 DEF WrittenIn
      <4> QED
        BY <2>3, <2>5, <4>1
    <3> QED
      BY <3>1, <3>2
  <2>11. ASSUME NEW s \in SlotNames, NEW kind \in Kinds,
                filled[s] = Filled(buffer[s], TopicText(call, kind)), filled[s] # NULL
         PROVE  Prefixed(filled[s].text, kind)
    <3>1. buffer[s] # NULL /\ buffer[s] \in Buffers
      BY <2>2, <2>11 DEF Filled
    <3>2. filled[s].text = TopicText(call, kind)
      BY <2>11, <3>1, FilledBuffer
    <3> QED
      BY <1>2, <3>2, TextsFit
  <2>12. buffer' = filled /\ call' = call /\ stage' = "filled"
    BY <1>1, <1>6 DEF filled
  <2>13. OwnKind(call) \in Kinds /\ "response" \in Kinds
    BY <1>2, CallNames
  <2>14. FilledWell'
    <3>1. WritesFit'
      BY <2>7, <2>8, <2>9, <2>10, <2>12, SlotsNamed DEF WritesFit
    <3>2. filled["topic"] # NULL => Prefixed(filled["topic"].text, OwnKind(call))
      BY <2>1, <2>3, <2>11, <2>13
    <3>3. call.helper = "service" /\ filled["rep_topic"] # NULL =>
            Prefixed(filled["rep_topic"].text, "response")
      BY <2>1, <2>3, <2>11, <2>13
    <3> QED
      BY <2>12, <3>1, <3>2, <3>3 DEF FilledWell
  <2>15. \A s \in SlotNames :
           /\ filled[s].size = buffer[s].size
           /\ buffer[s] = NULL => filled[s] = NULL
    BY <2>1, <2>2, <2>3, FilledBuffer, SlotsNamed DEF WrittenIn
  <2>16. \A s \in SlotNames : buffer[s] = NULL <=> filled[s] = NULL
    BY <2>2, <2>15, NullBuffer
  <2>17. Complete'
    <3>1. Complete
      BY <1>1 DEF NInv
    <3>2. CASE TopicOnly
      BY <2>12, <2>16, <3>2 DEF Complete, TopicOnly
    <3>3. CASE \A i \in DOMAIN Needed(call.helper) : buffer[Slots[i]] # NULL
      <4>1. \A i \in DOMAIN Needed(call.helper) : Slots[i] \in SlotNames
        BY NeededSlots, SlotsNamed DEF Slots
      <4>2. \A i \in DOMAIN Needed(call.helper) : buffer'[Slots[i]] # NULL
        BY <2>12, <2>16, <3>3, <4>1
      <4> QED
        BY <2>12, <4>2 DEF Complete
    <3> QED
      BY <3>1, <3>2, <3>3 DEF Complete
  <2> QED
    BY <1>1, <1>3, <1>4, <1>6, <2>12, <2>14, <2>17 DEF NInv, QuerySuffices
<1> QED
  BY <1>5, <1>6

\* Returning frees every buffer, or leaves the topic's.
LEMMA ReturnStep ==
  ASSUME NInv, Return
  PROVE  NInv'
<1>1. /\ stage = "filled"
      /\ call' = call /\ length' = length
      /\ result' = [s \in SlotNames |-> buffer[s].text]
      /\ \/ /\ stage' = "returned" /\ error' = error /\ buffer' = NoBuffers
            /\ \A i \in DOMAIN Needed(call.helper) : buffer[Slots[i]] # NULL
         \/ /\ stage' = "failed" /\ error' = "NULL_COPIED" /\ buffer' = buffer
            /\ ~\A i \in DOMAIN Needed(call.helper) : buffer[Slots[i]] # NULL
  BY DEF Return
<1>2. NamesTypeOK /\ FilledWell /\ Complete /\ error = "OK"
  BY <1>1 DEF NInv
<1>3. NamesTypeOK'
  BY <1>1, <1>2, NoBuffersNull DEF NamesTypeOK, Stages
<1>4. CASE stage' = "returned" /\ error' = error /\ buffer' = NoBuffers
           /\ \A i \in DOMAIN Needed(call.helper) : buffer[Slots[i]] # NULL
  <2>1. buffer["topic"] # NULL /\ (call.helper = "service" => buffer["rep_topic"] # NULL)
    <3>1. /\ 1 \in DOMAIN Needed(call.helper)
          /\ call.helper = "service" => 3 \in DOMAIN Needed(call.helper)
      BY NeededSlots
    <3>2. Slots[1] = "topic" /\ Slots[3] = "rep_topic"
      BY DEF Slots
    <3> QED
      BY <1>4, <3>1, <3>2
  <2>2. /\ result'["topic"] = buffer["topic"].text
        /\ result'["rep_topic"] = buffer["rep_topic"].text
    BY <1>1, SlotsNamed
  <2>3. ReturnedWell'
    BY <1>1, <1>2, <2>1, <2>2 DEF ReturnedWell, FilledWell
  <2> QED
    BY <1>1, <1>2, <1>3, <1>4, <2>3 DEF NInv, QuerySuffices
<1>5. CASE /\ stage' = "failed" /\ error' = "NULL_COPIED" /\ buffer' = buffer
           /\ ~\A i \in DOMAIN Needed(call.helper) : buffer[Slots[i]] # NULL
  <2>1. WritesFit /\ TopicOnly
    BY <1>2, <1>5 DEF FilledWell, Complete
  <2>2. FailedWell'
    BY <1>5, <2>1 DEF FailedWell, WritesFit, TopicOnly
  <2> QED
    BY <1>1, <1>3, <1>5, <2>2 DEF NInv, QuerySuffices
<1> QED
  BY <1>1, <1>4, <1>5

\* Every step keeps the invariant.
LEMMA NStep ==
  NInv /\ [Next]_vars => NInv'
<1> SUFFICES ASSUME NInv, [Next]_vars PROVE NInv'
  OBVIOUS
<1>1. ASSUME NEW c \in Calls, Begin(c)
      PROVE  NInv'
  <2>1. /\ Ended /\ call' = c /\ stage' = "query" /\ buffer' = NoBuffers
        /\ length' = [s \in SlotNames |-> 0] /\ error' = "OK"
    BY <1>1 DEF Begin
  <2>2. NamesTypeOK
    BY <2>1 DEF NInv
  <2>3. NamesTypeOK'
    BY <2>1, <2>2, NoBuffersNull DEF NamesTypeOK, Stages
  <2> QED
    BY <2>1, <2>2, <2>3 DEF NInv, QuerySuffices
<1>2. CASE ServiceFails
  <2>1. /\ stage' = "failed" /\ error' = "ERROR" /\ buffer' = NoBuffers
        /\ call' = call /\ length' = length
    BY <1>2 DEF ServiceFails
  <2>2. NamesTypeOK'
    BY <2>1, NoBuffersNull DEF NInv, NamesTypeOK, Stages
  <2>3. FailedWell'
    BY <2>1 DEF FailedWell
  <2> QED
    BY <2>1, <2>2, <2>3 DEF NInv, QuerySuffices
<1>3. CASE UNCHANGED vars
  <2>1. /\ call' = call /\ stage' = stage /\ length' = length
        /\ buffer' = buffer /\ error' = error /\ result' = result
    BY <1>3 DEF vars
  <2>2. /\ NamesTypeOK' = NamesTypeOK /\ QuerySuffices' = QuerySuffices
        /\ Prepared' = Prepared /\ FilledWell' = FilledWell /\ ReturnedWell' = ReturnedWell
        /\ Complete' = Complete /\ FailedWell' = FailedWell
    BY <2>1 DEF NamesTypeOK, QuerySuffices, Prepared, FilledWell, ReturnedWell, WritesFit,
                Complete, TopicOnly, FailedWell
  <2> QED
    BY <2>1, <2>2 DEF NInv
<1> QED
  BY <1>1, <1>2, <1>3, QueryStep, AllocStep, AllocFailsStep, FillStep, ReturnStep DEF Next

\* The invariant holds throughout.
LEMMA NInvariant ==
  Spec => []NInv
BY NInit, NStep, PTL DEF Spec

-----------------------------------------------------------------------------
(* The theorems. *)

\* Nothing is written past the end of a buffer, whatever the names: not with a
\* reply's suffix in the buffer of a request, not with empty or invalid types.
THEOREM NamesFit ==
  Spec => []WritesFit
<1>1. NInv => WritesFit
  <2> SUFFICES ASSUME NInv, NEW s \in SlotNames
               PROVE  Width(buffer[s].text) <= buffer[s].size
    BY DEF WritesFit
  <2>1. CASE buffer = NoBuffers
    BY <2>1, NoBuffersNull, NullBuffer, EmptyFits
  <2>2. CASE stage \in {"alloc", "fill"}
    <3>1. CASE buffer[s] = NULL
      BY <3>1, NullBuffer, EmptyFits
    <3>2. CASE buffer[s] # NULL
      <4>1. buffer[s].text = <<>> /\ buffer[s].size \in Nat
        BY <2>2, <3>2 DEF NInv, Prepared, NamesTypeOK, Buffers
      <4> QED
        BY <4>1, EmptyFits
    <3> QED
      BY <3>1, <3>2
  <2>3. CASE stage = "filled"
    BY <2>3 DEF NInv, FilledWell, WritesFit
  <2>4. CASE stage = "failed"
    BY <2>1, <2>4 DEF NInv, FailedWell, WritesFit
  <2> QED
    BY <2>1, <2>2, <2>3, <2>4 DEF NInv, NamesTypeOK, Stages
<1> QED
  BY <1>1, NInvariant, PTL

\* The lengths that a query returns are enough for the call that fills.
THEOREM QueriesSuffice ==
  Spec => []QuerySuffices
<1>1. NInv => QuerySuffices
  BY DEF NInv
<1> QED
  BY <1>1, NInvariant, PTL

\* No buffer outlives the call of its helper, however it fails, but the topic's
\* where the C++ helper copies the type's name from NULL.
THEOREM BuffersAreFreed ==
  Spec => []BuffersFreed
<1>1. NInv => BuffersFreed
  <2> SUFFICES ASSUME NInv, Ended, NEW s \in SlotNames, buffer[s] # NULL
               PROVE  error = "NULL_COPIED" /\ s = "topic"
    BY DEF BuffersFreed, Allocated
  <2>1. buffer # NoBuffers
    BY NoBuffersNull
  <2> QED
    BY <2>1 DEF NInv, FailedWell, TopicOnly, Ended
<1> QED
  BY <1>1, NInvariant, PTL

\* The topics that a helper names are those of endpoints of its type.
THEOREM TopicsAreDetected ==
  Spec => []TopicsDetected
<1>1. NInv => TopicsDetected
  <2> SUFFICES ASSUME NInv, stage = "returned"
               PROVE  TopicsDetected
    BY DEF TopicsDetected, Returned
  <2>1. /\ result["topic"][1] = Prefix[OwnKind(call)]
        /\ call.helper = "service" => result["rep_topic"][1] = Prefix["response"]
    BY DEF NInv, ReturnedWell, Prefixed
  <2>2. /\ Prefix["default"] = "rt/" /\ Prefix["request"] = "rq/" /\ Prefix["response"] = "rr/"
    BY DEF Prefix
  <2> QED
    BY <2>1, <2>2 DEF TopicsDetected, Returned, Detected, OwnKind
<1> QED
  BY <1>1, NInvariant, PTL
=============================================================================
