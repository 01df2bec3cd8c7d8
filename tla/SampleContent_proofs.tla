------------------------ MODULE SampleContent_proofs ------------------------
(***************************************************************************)
(* Machine-checked proofs that the samples of GraphSample, which are built *)
(* in slots that earlier samples have left behind, are what the registry   *)
(* says: the refinement of Announcement.                                   *)
(***************************************************************************)
EXTENDS GraphSample_proofs

-----------------------------------------------------------------------------
(* The elements of a sequence at some of its places. *)

UpTo(places, i) == {j \in places : j <= i}
Rank(places, i) == Cardinality(UpTo(places, i))

\* Every place has a rank of its own, and every rank has a place.
LEMMA Ranks ==
  ASSUME NEW n \in Nat, NEW places \in SUBSET (1 .. n)
  PROVE  /\ IsFiniteSet(places) /\ Cardinality(places) \in 0 .. n
         /\ \A i \in places : Rank(places, i) \in 1 .. Cardinality(places)
         /\ \A i, j \in places : Rank(places, i) = Rank(places, j) => i = j
         /\ \A k \in 1 .. Cardinality(places) : \E i \in places : Rank(places, i) = k
<1> DEFINE count == Cardinality(places)
           rank == [i \in places |-> Rank(places, i)]
<1>1. IsFiniteSet(places) /\ count \in 0 .. n
  <2>1. IsFiniteSet(1 .. n) /\ Cardinality(1 .. n) = n
    BY FS_Interval
  <2>2. IsFiniteSet(places) /\ count <= n
    BY <2>1, FS_Subset
  <2> QED
    BY <2>2, FS_CardinalityType
<1>2. ASSUME NEW i \in places
      PROVE  /\ IsFiniteSet(UpTo(places, i))
             /\ Rank(places, i) \in 1 .. count
  <2>1. /\ UpTo(places, i) \in SUBSET places
        /\ i \in UpTo(places, i)
    BY DEF UpTo
  <2>2. /\ IsFiniteSet(UpTo(places, i))
        /\ Rank(places, i) <= count
        /\ Rank(places, i) \in Nat
    BY <1>1, <2>1, FS_Subset, FS_CardinalityType DEF Rank
  <2>3. Rank(places, i) # 0
    BY <2>1, <2>2, FS_EmptySet DEF Rank
  <2> QED
    BY <1>1, <2>2, <2>3
<1>3. ASSUME NEW i \in places, NEW j \in places, i < j
      PROVE  Rank(places, i) # Rank(places, j)
  <2>1. /\ UpTo(places, i) \in SUBSET UpTo(places, j)
        /\ j \in UpTo(places, j) /\ j \notin UpTo(places, i)
    <3>1. \A x \in places : x \in Int
      OBVIOUS
    <3>2. i \in Int /\ j \in Int
      BY <3>1
    <3>3. \A x \in places : x <= i => x <= j
      BY <1>3, <3>1, <3>2
    <3>4. j <= j /\ ~(j <= i)
      BY <1>3, <3>2
    <3> QED
      BY <3>3, <3>4 DEF UpTo
  <2>2. IsFiniteSet(UpTo(places, j)) /\ UpTo(places, i) # UpTo(places, j)
    BY <1>2, <2>1
  <2> QED
    BY <2>1, <2>2, FS_Subset DEF Rank
<1>4. \A i, j \in places : Rank(places, i) = Rank(places, j) => i = j
  <2> SUFFICES ASSUME NEW i \in places, NEW j \in places, i # j
               PROVE  Rank(places, i) # Rank(places, j)
    OBVIOUS
  <2>1. i < j \/ j < i
    OBVIOUS
  <2> QED
    BY <1>3, <2>1
<1>5. rank \in Injection(places, 1 .. count)
  BY <1>2, <1>4 DEF Injection, IsInjective
<1>6. IsFiniteSet(1 .. count) /\ Cardinality(1 .. count) = count
  BY <1>1, FS_Interval
<1>7. rank \in Surjection(places, 1 .. count)
  BY <1>5, <1>6, FS_Injection
<1>8. \A k \in 1 .. count : \E i \in places : rank[i] = k
  BY <1>7 DEF Surjection
<1> QED
  BY <1>1, <1>2, <1>4, <1>8

\* What is picked is a sequence of elements, one for each place, in order.
LEMMA PickedElements ==
  ASSUME NEW S, NEW seq \in Seq(S), NEW places \in SUBSET DOMAIN seq
  PROVE  /\ Picked(seq, places) \in Seq(S)
         /\ Len(Picked(seq, places)) = Cardinality(places)
         /\ Cardinality(places) \in 0 .. Len(seq)
         /\ DOMAIN Picked(seq, places) = 1 .. Cardinality(places)
         /\ \A i \in places : /\ Rank(places, i) \in 1 .. Cardinality(places)
                              /\ Picked(seq, places)[Rank(places, i)] = seq[i]
         /\ \A k \in 1 .. Cardinality(places) :
              \E i \in places : Rank(places, i) = k /\ Picked(seq, places)[k] = seq[i]
<1> DEFINE count == Cardinality(places)
           place(k) == CHOOSE i \in places : Rank(places, i) = k
           picked == Picked(seq, places)
<1>1. DOMAIN seq = 1 .. Len(seq) /\ Len(seq) \in Nat
  BY LenProperties
<1>2. /\ count \in 0 .. Len(seq)
      /\ \A i \in places : Rank(places, i) \in 1 .. count
      /\ \A i, j \in places : Rank(places, i) = Rank(places, j) => i = j
      /\ \A k \in 1 .. count : \E i \in places : Rank(places, i) = k
  BY <1>1, Ranks
<1>3. picked = [k \in 1 .. count |-> seq[place(k)]]
  BY DEF Picked, Rank, UpTo
<1>4. \A k \in 1 .. count : place(k) \in places /\ Rank(places, place(k)) = k
  BY <1>2
<1>5. \A i \in places : place(Rank(places, i)) = i
  BY <1>2, <1>4
<1> HIDE DEF place
<1>6. \A k \in 1 .. count : seq[place(k)] \in S
  BY <1>1, <1>4, ElementOfSeq
<1>7. picked \in Seq(S) /\ Len(picked) = count /\ DOMAIN picked = 1 .. count
  <2>1. picked \in [1 .. count -> S]
    BY <1>3, <1>6
  <2>2. picked \in Seq(S)
    BY <1>2, <2>1, SeqDef
  <2> QED
    BY <1>2, <2>1, <2>2, LenProperties
<1>8. \A k \in 1 .. count : picked[k] = seq[place(k)]
  BY <1>3
<1> HIDE DEF picked, count
<1> QED
  BY <1>2, <1>4, <1>5, <1>7, <1>8 DEF picked, count

-----------------------------------------------------------------------------
(* Sequences that keep what lies beyond their length. *)

Sound(S) == {seq \in [slots : Seq(S), len : Nat] : seq.len <= Len(seq.slots)}

\* A sequence whose length is set holds as many elements.
LEMMA EnsureLengthSound ==
  ASSUME NEW S, NEW seq \in Sound(S), NEW len \in Nat, NEW default \in S
  PROVE  /\ EnsureLength(seq, len, default) \in Sound(S)
         /\ EnsureLength(seq, len, default).len = len
<1> DEFINE slots == EnsureLength(seq, len, default).slots
<1>1. /\ seq.slots \in Seq(S) /\ Len(seq.slots) \in Nat /\ DOMAIN seq.slots = 1 .. Len(seq.slots)
      /\ seq.len \in Nat /\ seq.len <= Len(seq.slots)
  BY LenProperties DEF Sound
<1>2. /\ EnsureLength(seq, len, default) = [slots |-> slots, len |-> len]
      /\ slots = Grown(seq, len, default)
  BY DEF EnsureLength
<1> HIDE DEF slots
<1>3. CASE len <= Len(seq.slots)
  BY <1>1, <1>2, <1>3 DEF Grown, Sound
<1>4. CASE ~(len <= Len(seq.slots))
  <2>1. slots = [i \in 1 .. len |-> IF i <= seq.len THEN seq.slots[i] ELSE default]
    BY <1>2, <1>4 DEF Grown
  <2>2. ASSUME NEW i \in 1 .. len, i <= seq.len
        PROVE  seq.slots[i] \in S
    <3>1. i \in 1 .. Len(seq.slots)
      BY <1>1, <2>2
    <3> QED
      BY <1>1, <3>1, ElementOfSeq
  <2>3. slots \in [1 .. len -> S]
    BY <2>1, <2>2
  <2>4. slots \in Seq(S) /\ Len(slots) = len
    <3>1. slots \in Seq(S)
      BY <2>3, SeqDef
    <3> QED
      BY <2>3, <3>1, LenProperties
  <2> QED
    BY <1>2, <2>4 DEF Sound
<1> QED
  BY <1>3, <1>4

\* Filling changes no length.
LEMMA FillSound ==
  ASSUME NEW S, NEW seq \in Sound(S), NEW gids,
         \A i \in DOMAIN gids : gids[i] \in SUBSET S
  PROVE  /\ Fill(seq, gids) \in Sound(S)
         /\ Fill(seq, gids).len = seq.len
         /\ \A i \in DOMAIN seq.slots \cap DOMAIN gids :
              gids[i] # {} => Fill(seq, gids).slots[i] \in gids[i]
<1> DEFINE slots == [i \in DOMAIN seq.slots |->
                       IF i \in DOMAIN gids /\ gids[i] # {}
                       THEN CHOOSE gid \in gids[i] : TRUE ELSE seq.slots[i]]
<1>1. /\ seq \in [slots : Seq(S), len : Nat]
      /\ seq.slots \in Seq(S) /\ Len(seq.slots) \in Nat
      /\ seq.len \in Nat /\ seq.len <= Len(seq.slots)
  BY LenProperties DEF Sound
<1>2. DOMAIN seq.slots = 1 .. Len(seq.slots) /\ seq.slots \in [1 .. Len(seq.slots) -> S]
  BY <1>1, LenProperties
<1>3. Fill(seq, gids) = [slots |-> slots, len |-> seq.len]
  <2>1. Fill(seq, gids) = [seq EXCEPT !.slots = slots]
    BY Zenon DEF Fill
  <2> HIDE DEF slots
  <2> QED
    BY <1>1, <2>1
<1>4. \A i \in DOMAIN seq.slots \cap DOMAIN gids : gids[i] # {} => slots[i] \in gids[i]
  OBVIOUS
<1>5. slots \in [1 .. Len(seq.slots) -> S]
  <2>1. \A i \in DOMAIN seq.slots : slots[i] \in S
    BY <1>2, <1>4
  <2> QED
    BY <1>2, <2>1
<1> HIDE DEF slots
<1>6. slots \in Seq(S) /\ Len(slots) = Len(seq.slots)
  <2>1. slots \in Seq(S)
    BY <1>1, <1>5, SeqDef
  <2> QED
    BY <1>1, <1>5, <2>1, LenProperties
<1> QED
  BY <1>1, <1>3, <1>4, <1>6 DEF Sound

\* What shows of a sequence.
LEMMA ShownElements ==
  ASSUME NEW S, NEW seq \in Sound(S)
  PROVE  /\ Shown(seq) \in Seq(S) /\ Len(Shown(seq)) = seq.len
         /\ DOMAIN Shown(seq) = 1 .. seq.len
         /\ 1 .. seq.len \subseteq DOMAIN seq.slots
         /\ \A i \in 1 .. seq.len : Shown(seq)[i] = seq.slots[i]
<1>1. /\ seq.slots \in Seq(S) /\ Len(seq.slots) \in Nat /\ DOMAIN seq.slots = 1 .. Len(seq.slots)
      /\ seq.len \in Nat /\ seq.len <= Len(seq.slots)
  BY LenProperties DEF Sound
<1>2. \A i \in 1 .. seq.len : i \in 1 .. Len(seq.slots) /\ seq.slots[i] \in S
  <2> SUFFICES ASSUME NEW i \in 1 .. seq.len
               PROVE  i \in 1 .. Len(seq.slots) /\ seq.slots[i] \in S
    OBVIOUS
  <2>1. i \in 1 .. Len(seq.slots)
    BY <1>1
  <2> QED
    BY <1>1, <2>1, ElementOfSeq
<1>3. /\ Shown(seq) \in Seq(S)
      /\ Len(Shown(seq)) = IF 1 <= seq.len THEN seq.len - 1 + 1 ELSE 0
      /\ \A i \in 1 .. seq.len - 1 + 1 : Shown(seq)[i] = seq.slots[1 + i - 1]
  BY <1>1, <1>2, SubSeqProperties DEF Shown
<1>4. Len(Shown(seq)) = seq.len /\ \A i \in 1 .. seq.len : Shown(seq)[i] = seq.slots[i]
  BY <1>1, <1>3
<1> QED
  BY <1>1, <1>2, <1>3, <1>4, LenProperties

-----------------------------------------------------------------------------
(* One node. *)

SoundInfo == [node_name : Names \cup {NoName}, node_namespace : Namespaces \cup {NoName},
              reader_gid_seq : Sound(Gids), writer_gid_seq : Sound(Gids)]

\* The places of node_to_sample are the ranks among the readers and the writers.
LEMMA PlacesAreRanks ==
  ASSUME NEW node \in Node, NEW k \in DOMAIN node.endpoints
  PROVE  /\ ReaderPlace(node, k) = Rank(WithReader(node), k)
         /\ WriterPlace(node, k) = Rank(WithWriter(node), k)
<1>1. DOMAIN node.endpoints = 1 .. Len(node.endpoints) /\ Len(node.endpoints) \in Nat
  BY LenProperties DEF Node
<1>2. \A j : j \in 1 .. k <=> j \in DOMAIN node.endpoints /\ j <= k
  BY <1>1
<1>3. /\ {j \in 1 .. k : HasReader(node.endpoints[j])} = UpTo(WithReader(node), k)
      /\ {j \in 1 .. k : HasWriter(node.endpoints[j])} = UpTo(WithWriter(node), k)
  BY <1>2 DEF UpTo, WithReader, WithWriter, HasReader, HasWriter
<1> QED
  BY <1>3 DEF ReaderPlace, WriterPlace, Rank

\* The writers and the readers of a node, as the registry lists them.
LEMMA ListedElements ==
  ASSUME NEW node \in Node
  PROVE  /\ WritersOf(node) \in Seq(Entities) /\ ReadersOf(node) \in Seq(Entities)
         /\ Len(WritersOf(node)) = Cardinality(WithWriter(node))
         /\ Len(ReadersOf(node)) = Cardinality(WithReader(node))
         /\ Cardinality(WithWriter(node)) \in Nat /\ Cardinality(WithReader(node)) \in Nat
         /\ \A i \in 1 .. Cardinality(WithWriter(node)) :
              \E k \in WithWriter(node) :
                /\ Rank(WithWriter(node), k) = i
                /\ WritersOf(node)[i] = node.endpoints[k].dds_writer
         /\ \A i \in 1 .. Cardinality(WithReader(node)) :
              \E k \in WithReader(node) :
                /\ Rank(WithReader(node), k) = i
                /\ ReadersOf(node)[i] = node.endpoints[k].dds_reader
         /\ \A k, l \in WithWriter(node) :
              Rank(WithWriter(node), k) = Rank(WithWriter(node), l) => k = l
         /\ \A k, l \in WithReader(node) :
              Rank(WithReader(node), k) = Rank(WithReader(node), l) => k = l
         /\ \A k \in WithReader(node) :
              Rank(WithReader(node), k) \in 1 .. Cardinality(WithReader(node))
<1> DEFINE writers == [k \in DOMAIN node.endpoints |-> node.endpoints[k].dds_writer]
           readers == [k \in DOMAIN node.endpoints |-> node.endpoints[k].dds_reader]
           count == Len(node.endpoints)
           All == Entities \cup {NoEntity}
<1>1. /\ DOMAIN node.endpoints = 1 .. count /\ count \in Nat
      /\ \A k \in DOMAIN node.endpoints : node.endpoints[k] \in Endpoint
  BY LenProperties, ElementOfSeq DEF Node
<1>2. writers \in Seq(All) /\ readers \in Seq(All)
  <2>1. writers \in [1 .. count -> All] /\ readers \in [1 .. count -> All]
    BY <1>1 DEF Endpoint
  <2> QED
    BY <1>1, <2>1, SeqDef
<1>3. /\ DOMAIN writers = DOMAIN node.endpoints /\ DOMAIN readers = DOMAIN node.endpoints
      /\ WithWriter(node) \in SUBSET DOMAIN node.endpoints
      /\ WithReader(node) \in SUBSET DOMAIN node.endpoints
  BY DEF WithWriter, WithReader
<1>4. WritersOf(node) = Picked(writers, WithWriter(node))
      /\ ReadersOf(node) = Picked(readers, WithReader(node))
  BY DEF WritersOf, ReadersOf
<1>5. /\ \A k \in WithWriter(node) : writers[k] = node.endpoints[k].dds_writer
      /\ \A k \in WithReader(node) : readers[k] = node.endpoints[k].dds_reader
  BY <1>3
<1>6. /\ \A k \in WithWriter(node) : writers[k] \in Entities
      /\ \A k \in WithReader(node) : readers[k] \in Entities
  BY <1>1 DEF WithWriter, WithReader, Endpoint
<1> HIDE DEF writers, readers, count, All
<1>7. /\ Picked(writers, WithWriter(node)) \in Seq(All)
      /\ Len(Picked(writers, WithWriter(node))) = Cardinality(WithWriter(node))
      /\ \A i \in 1 .. Cardinality(WithWriter(node)) :
           \E k \in WithWriter(node) :
             Rank(WithWriter(node), k) = i
             /\ Picked(writers, WithWriter(node))[i] = writers[k]
  BY <1>2, <1>3, PickedElements
<1>8. /\ Picked(readers, WithReader(node)) \in Seq(All)
      /\ Len(Picked(readers, WithReader(node))) = Cardinality(WithReader(node))
      /\ \A i \in 1 .. Cardinality(WithReader(node)) :
           \E k \in WithReader(node) :
             Rank(WithReader(node), k) = i
             /\ Picked(readers, WithReader(node))[i] = readers[k]
  BY <1>2, <1>3, PickedElements
<1>9. /\ Cardinality(WithWriter(node)) \in Nat /\ Cardinality(WithReader(node)) \in Nat
      /\ \A k, l \in WithWriter(node) :
           Rank(WithWriter(node), k) = Rank(WithWriter(node), l) => k = l
      /\ \A k, l \in WithReader(node) :
           Rank(WithReader(node), k) = Rank(WithReader(node), l) => k = l
      /\ \A k \in WithReader(node) :
           Rank(WithReader(node), k) \in 1 .. Cardinality(WithReader(node))
  <2>1. /\ WithWriter(node) \in SUBSET (1 .. count) /\ WithReader(node) \in SUBSET (1 .. count)
        /\ count \in Nat
    BY <1>1, <1>3
  <2>2. /\ Cardinality(WithWriter(node)) \in Nat
        /\ \A k, l \in WithWriter(node) :
             Rank(WithWriter(node), k) = Rank(WithWriter(node), l) => k = l
    BY <2>1, Ranks
  <2>3. /\ Cardinality(WithReader(node)) \in Nat
        /\ \A k, l \in WithReader(node) :
             Rank(WithReader(node), k) = Rank(WithReader(node), l) => k = l
        /\ \A k \in WithReader(node) :
             Rank(WithReader(node), k) \in 1 .. Cardinality(WithReader(node))
    BY <2>1, Ranks
  <2> QED
    BY <2>2, <2>3
<1>10. WritersOf(node) \in Seq(Entities)
  <2>1. WritersOf(node) \in [1 .. Cardinality(WithWriter(node)) -> All]
    BY <1>4, <1>7, LenProperties
  <2>2. \A i \in 1 .. Cardinality(WithWriter(node)) : WritersOf(node)[i] \in Entities
    BY <1>4, <1>6, <1>7
  <2> QED
    BY <1>9, <2>1, <2>2, SeqDef
<1>11. ReadersOf(node) \in Seq(Entities)
  <2>1. ReadersOf(node) \in [1 .. Cardinality(WithReader(node)) -> All]
    BY <1>4, <1>8, LenProperties
  <2>2. \A i \in 1 .. Cardinality(WithReader(node)) : ReadersOf(node)[i] \in Entities
    BY <1>4, <1>6, <1>8
  <2> QED
    BY <1>9, <2>1, <2>2, SeqDef
<1> QED
  BY <1>4, <1>5, <1>7, <1>8, <1>9, <1>10, <1>11

\* What the loop writes: the writer of each rank, and the reader of each rank
\* whose endpoint has no writer.
LEMMA WrittenGids ==
  ASSUME NEW node \in Node
  PROVE  /\ \A i : /\ WritersAt(node, i) \in SUBSET Entities
                   /\ ReadersAt(node, i) \in SUBSET Entities
         /\ \A i \in 1 .. Cardinality(WithWriter(node)) :
              WritersAt(node, i) = {WritersOf(node)[i]}
         /\ \A i \in 1 .. Cardinality(WithReader(node)) :
              ReadersAt(node, i) \in SUBSET {ReadersOf(node)[i]}
         /\ \A k \in WithReader(node) \ WithWriter(node) :
              ReadersAt(node, Rank(WithReader(node), k)) # {}
<1>1. \A k \in DOMAIN node.endpoints : node.endpoints[k] \in Endpoint
  BY LenProperties, ElementOfSeq DEF Node
<1>2. \A i : WritersAt(node, i) =
        {node.endpoints[k].dds_writer :
           k \in {k \in WithWriter(node) : Rank(WithWriter(node), k) = i}}
  BY PlacesAreRanks DEF WritersAt, HasWriter, WithWriter
<1>3. \A i : ReadersAt(node, i) =
        {node.endpoints[k].dds_reader :
           k \in {k \in WithReader(node) \ WithWriter(node) : Rank(WithReader(node), k) = i}}
  BY PlacesAreRanks DEF ReadersAt, HasReader, HasWriter, WithReader, WithWriter
<1>4. \A i : WritersAt(node, i) \in SUBSET Entities /\ ReadersAt(node, i) \in SUBSET Entities
  <2>1. /\ \A k \in WithWriter(node) : node.endpoints[k].dds_writer \in Entities
        /\ \A k \in WithReader(node) : node.endpoints[k].dds_reader \in Entities
    BY <1>1 DEF WithWriter, WithReader, Endpoint
  <2> QED
    BY <1>2, <1>3, <2>1
<1>5. ASSUME NEW i \in 1 .. Cardinality(WithWriter(node))
      PROVE  WritersAt(node, i) = {WritersOf(node)[i]}
  <2>1. PICK k \in WithWriter(node) :
          Rank(WithWriter(node), k) = i /\ WritersOf(node)[i] = node.endpoints[k].dds_writer
    BY ListedElements
  <2>2. {l \in WithWriter(node) : Rank(WithWriter(node), l) = i} = {k}
    BY <2>1, ListedElements
  <2> QED
    BY <1>2, <2>1, <2>2
<1>6. ASSUME NEW i \in 1 .. Cardinality(WithReader(node))
      PROVE  ReadersAt(node, i) \in SUBSET {ReadersOf(node)[i]}
  <2>1. PICK k \in WithReader(node) :
          Rank(WithReader(node), k) = i /\ ReadersOf(node)[i] = node.endpoints[k].dds_reader
    BY ListedElements
  <2>2. {l \in WithReader(node) \ WithWriter(node) : Rank(WithReader(node), l) = i}
          \subseteq {k}
    BY <2>1, ListedElements
  <2> QED
    BY <1>3, <2>1, <2>2
<1>7. \A k \in WithReader(node) \ WithWriter(node) :
        ReadersAt(node, Rank(WithReader(node), k)) # {}
  <2> SUFFICES ASSUME NEW k \in WithReader(node) \ WithWriter(node)
               PROVE  node.endpoints[k].dds_reader \in
                        ReadersAt(node, Rank(WithReader(node), k))
    OBVIOUS
  <2> QED
    BY <1>3, Zenon
<1> QED
  BY <1>4, <1>5, <1>6, <1>7

\* The sequences of an info are sized for the node before they are filled.
LEMMA SizedSound ==
  ASSUME NEW node \in Node, NEW info \in SoundInfo
  PROVE  LET sized == Sized(node, info)
         IN  /\ sized \in SoundInfo
             /\ sized.node_name = node.node_name
             /\ sized.node_namespace = node.node_namespace
             /\ sized.reader_gid_seq.len = node.readers_len
             /\ sized.writer_gid_seq.len = node.writers_len
<1> DEFINE readers == EnsureLength(info.reader_gid_seq, node.readers_len, NoGid)
           writers == EnsureLength(info.writer_gid_seq, node.writers_len, NoGid)
<1>1. /\ node.readers_len \in Nat /\ node.writers_len \in Nat
      /\ node.node_name \in Names /\ node.node_namespace \in Namespaces
  BY RegistryAssumption DEF Node, Sizes
<1>2. info.reader_gid_seq \in Sound(Gids) /\ info.writer_gid_seq \in Sound(Gids)
  BY DEF SoundInfo
<1>3. /\ readers \in Sound(Gids) /\ readers.len = node.readers_len
      /\ writers \in Sound(Gids) /\ writers.len = node.writers_len
  <2>1. NoGid \in Gids
    BY DEF Gids
  <2> QED
    BY <1>1, <1>2, <2>1, EnsureLengthSound
<1>4. Sized(node, info) =
        [node_name |-> node.node_name, node_namespace |-> node.node_namespace,
         reader_gid_seq |-> readers, writer_gid_seq |-> writers]
  BY DEF Sized
<1> HIDE DEF readers, writers
<1> QED
  BY <1>1, <1>3, <1>4 DEF SoundInfo

\* What an info shows once node_to_sample is through with a node: its names, its
\* writers in order, as many readers as it has, and each reader that comes
\* without a writer at its place.
LEMMA NodeConverted ==
  ASSUME NEW node \in Node, Conforming(node), NEW info \in SoundInfo
  PROVE  LET new == NodeToSample(node, info)
             readers == Shown(new.reader_gid_seq)
         IN  /\ new \in SoundInfo
             /\ new.node_name = node.node_name
             /\ new.node_namespace = node.node_namespace
             /\ Shown(new.writer_gid_seq) = WritersOf(node)
             /\ readers \in Seq(Gids)
             /\ Len(readers) = Len(ReadersOf(node))
             /\ \A k \in WithReader(node) \ WithWriter(node) :
                  readers[Rank(WithReader(node), k)] = node.endpoints[k].dds_reader
             /\ WithReader(node) \cap WithWriter(node) = {} => readers = ReadersOf(node)
<1> DEFINE sized == Sized(node, info)
           new == NodeToSample(node, info)
           rlen == Cardinality(WithReader(node))
           wlen == Cardinality(WithWriter(node))
           rgids == [i \in 1 .. sized.reader_gid_seq.len |-> ReadersAt(node, i)]
           wgids == [i \in 1 .. sized.writer_gid_seq.len |-> WritersAt(node, i)]
           rfilled == Fill(sized.reader_gid_seq, rgids)
           wfilled == Fill(sized.writer_gid_seq, wgids)
<1>1. /\ sized \in SoundInfo
      /\ sized.node_name = node.node_name /\ sized.node_namespace = node.node_namespace
      /\ sized.reader_gid_seq.len = rlen /\ sized.writer_gid_seq.len = wlen
  BY SizedSound DEF Conforming
<1>2. new = [node_name |-> node.node_name, node_namespace |-> node.node_namespace,
             reader_gid_seq |-> rfilled, writer_gid_seq |-> wfilled]
  <2>1. new = [sized EXCEPT !.reader_gid_seq = rfilled, !.writer_gid_seq = wfilled]
    BY Zenon DEF NodeToSample
  <2> HIDE DEF sized, rfilled, wfilled, new
  <2> QED
    BY <1>1, <2>1 DEF SoundInfo
<1>3. sized.reader_gid_seq \in Sound(Gids) /\ sized.writer_gid_seq \in Sound(Gids)
  BY <1>1 DEF SoundInfo
<1>4. /\ DOMAIN rgids = 1 .. rlen /\ DOMAIN wgids = 1 .. wlen
      /\ \A i \in 1 .. rlen : rgids[i] = ReadersAt(node, i)
      /\ \A i \in 1 .. wlen : wgids[i] = WritersAt(node, i)
  BY <1>1
<1>5. /\ \A i \in 1 .. rlen : rgids[i] \in SUBSET Gids
      /\ \A i \in 1 .. wlen : wgids[i] \in SUBSET Gids
  BY <1>4, WrittenGids DEF Gids
<1> HIDE DEF rgids, wgids, sized
<1>6. /\ rfilled \in Sound(Gids) /\ rfilled.len = rlen
      /\ \A i \in DOMAIN sized.reader_gid_seq.slots \cap (1 .. rlen) :
           rgids[i] # {} => rfilled.slots[i] \in rgids[i]
  <2>1. \A i \in DOMAIN rgids : rgids[i] \in SUBSET Gids
    BY <1>4, <1>5
  <2>2. /\ rfilled \in Sound(Gids) /\ rfilled.len = sized.reader_gid_seq.len
        /\ \A i \in DOMAIN sized.reader_gid_seq.slots \cap DOMAIN rgids :
             rgids[i] # {} => rfilled.slots[i] \in rgids[i]
    BY <1>3, <2>1, FillSound
  <2> QED
    BY <1>1, <1>4, <2>2
<1>7. /\ wfilled \in Sound(Gids) /\ wfilled.len = wlen
      /\ \A i \in DOMAIN sized.writer_gid_seq.slots \cap (1 .. wlen) :
           wgids[i] # {} => wfilled.slots[i] \in wgids[i]
  <2>1. \A i \in DOMAIN wgids : wgids[i] \in SUBSET Gids
    BY <1>4, <1>5
  <2>2. /\ wfilled \in Sound(Gids) /\ wfilled.len = sized.writer_gid_seq.len
        /\ \A i \in DOMAIN sized.writer_gid_seq.slots \cap DOMAIN wgids :
             wgids[i] # {} => wfilled.slots[i] \in wgids[i]
    BY <1>3, <2>1, FillSound
  <2> QED
    BY <1>1, <1>4, <2>2
<1>8. /\ 1 .. rlen \subseteq DOMAIN sized.reader_gid_seq.slots
      /\ 1 .. wlen \subseteq DOMAIN sized.writer_gid_seq.slots
  BY <1>1, <1>3, ShownElements
<1> HIDE DEF rfilled, wfilled
<1>9. /\ Shown(rfilled) \in Seq(Gids) /\ Len(Shown(rfilled)) = rlen
      /\ \A i \in 1 .. rlen : Shown(rfilled)[i] = rfilled.slots[i]
  BY <1>6, ShownElements
<1>10. /\ Shown(wfilled) \in Seq(Gids) /\ Len(Shown(wfilled)) = wlen
       /\ \A i \in 1 .. wlen : Shown(wfilled)[i] = wfilled.slots[i]
  BY <1>7, ShownElements
<1>11. WritersOf(node) \in Seq(Gids) /\ ReadersOf(node) \in Seq(Gids)
  BY ListedElements, SeqMonotonic DEF Gids
<1>12. Shown(wfilled) = WritersOf(node)
  <2>1. \A i \in 1 .. wlen : Shown(wfilled)[i] = WritersOf(node)[i]
    <3> SUFFICES ASSUME NEW i \in 1 .. wlen PROVE Shown(wfilled)[i] = WritersOf(node)[i]
      OBVIOUS
    <3>1. wgids[i] = {WritersOf(node)[i]}
      BY <1>4, WrittenGids
    <3> QED
      BY <1>7, <1>8, <1>10, <3>1
  <2>2. Len(WritersOf(node)) = wlen
    BY ListedElements
  <2> QED
    BY <1>10, <1>11, <2>1, <2>2, SeqEqual
<1>13. \A i \in 1 .. rlen : ReadersAt(node, i) # {} => Shown(rfilled)[i] = ReadersOf(node)[i]
  <2> SUFFICES ASSUME NEW i \in 1 .. rlen, ReadersAt(node, i) # {}
               PROVE  Shown(rfilled)[i] = ReadersOf(node)[i]
    OBVIOUS
  <2>1. rgids[i] # {} /\ rgids[i] \in SUBSET {ReadersOf(node)[i]}
    BY <1>4, WrittenGids
  <2> QED
    BY <1>6, <1>8, <1>9, <2>1
<1>14. \A k \in WithReader(node) \ WithWriter(node) :
         Shown(rfilled)[Rank(WithReader(node), k)] = node.endpoints[k].dds_reader
  <2> SUFFICES ASSUME NEW k \in WithReader(node) \ WithWriter(node)
               PROVE  Shown(rfilled)[Rank(WithReader(node), k)] = node.endpoints[k].dds_reader
    OBVIOUS
  <2> DEFINE i == Rank(WithReader(node), k)
  <2>1. i \in 1 .. rlen /\ ReadersAt(node, i) # {}
    BY ListedElements, WrittenGids
  <2>2. PICK l \in WithReader(node) :
          Rank(WithReader(node), l) = i /\ ReadersOf(node)[i] = node.endpoints[l].dds_reader
    BY <2>1, ListedElements
  <2>3. l = k
    BY <2>2, ListedElements
  <2> QED
    BY <1>13, <2>1, <2>2, <2>3
<1>15. WithReader(node) \cap WithWriter(node) = {} => Shown(rfilled) = ReadersOf(node)
  <2> SUFFICES ASSUME WithReader(node) \cap WithWriter(node) = {}
               PROVE  Shown(rfilled) = ReadersOf(node)
    OBVIOUS
  <2>1. \A i \in 1 .. rlen : ReadersAt(node, i) # {}
    <3> SUFFICES ASSUME NEW i \in 1 .. rlen PROVE ReadersAt(node, i) # {}
      OBVIOUS
    <3>1. PICK k \in WithReader(node) : Rank(WithReader(node), k) = i
      BY ListedElements
    <3>2. k \in WithReader(node) \ WithWriter(node)
      OBVIOUS
    <3> QED
      BY <3>1, <3>2, WrittenGids
  <2>2. Len(ReadersOf(node)) = rlen
    BY ListedElements
  <2> QED
    BY <1>9, <1>11, <1>13, <2>1, <2>2, SeqEqual
<1>16. Len(Shown(rfilled)) = Len(ReadersOf(node))
  BY <1>9, ListedElements
<1>17. new \in SoundInfo
  BY <1>2, <1>6, <1>7 DEF SoundInfo, Node
<1> HIDE DEF new
<1> QED
  BY <1>2, <1>9, <1>12, <1>14, <1>15, <1>16, <1>17 DEF new

-----------------------------------------------------------------------------
(* The sample of one participant. *)

SoundSample == [gid : Participants, node_entities_info_seq : Sound(SoundInfo)]

\* The nodes of a participant are nodes of the registry.
LEMMA HostedNodes ==
  ASSUME GInv, NEW dp
  PROVE  /\ NodesOf(dp) \in Seq(Node)
         /\ Len(NodesOf(dp)) \in 0 .. Len(nodes)
         /\ DOMAIN NodesOf(dp) = 1 .. Len(NodesOf(dp))
         /\ \A i \in DOMAIN NodesOf(dp) :
              NodesOf(dp)[i] \in Node /\ Conforming(NodesOf(dp)[i])
<1>1. nodes \in Seq(Node) /\ HostedAt(dp) \in SUBSET DOMAIN nodes
  BY DEF GInv, IInv, TypeOK, HostedAt
<1>2. /\ NodesOf(dp) \in Seq(Node)
      /\ Len(NodesOf(dp)) = Cardinality(HostedAt(dp))
      /\ Cardinality(HostedAt(dp)) \in 0 .. Len(nodes)
      /\ \A k \in 1 .. Cardinality(HostedAt(dp)) :
           \E i \in HostedAt(dp) : NodesOf(dp)[k] = nodes[i]
  BY <1>1, PickedElements DEF NodesOf
<1>3. DOMAIN NodesOf(dp) = 1 .. Len(NodesOf(dp))
  BY <1>2, LenProperties
<1> QED
  BY <1>1, <1>2, <1>3, NodeFound

\* What the registry says of a participant, node by node.
LEMMA ContentByNode ==
  ASSUME GInv, NEW dp
  PROVE  Content(dp) = [k \in DOMAIN NodesOf(dp) |-> NodeContent(NodesOf(dp)[k])]
<1> DEFINE places == HostedAt(dp)
           count == Cardinality(places)
           place(k) == CHOOSE i \in places : Rank(places, i) = k
<1>1. /\ nodes \in Seq(Node) /\ Len(nodes) \in Nat /\ DOMAIN nodes = 1 .. Len(nodes)
      /\ places \in SUBSET DOMAIN nodes
  BY LenProperties DEF GInv, IInv, TypeOK, HostedAt
<1>2. \A k \in 1 .. count : place(k) \in DOMAIN nodes
  <2> HIDE DEF places
  <2>1. \A k \in 1 .. count : \E i \in places : Rank(places, i) = k
    BY <1>1, Ranks
  <2> QED
    BY <1>1, <2>1
<1>3. NodesOf(dp) = [k \in 1 .. count |-> nodes[place(k)]]
  BY DEF NodesOf, Picked, Rank, UpTo
<1>4. Content(dp) = [k \in 1 .. count |->
                       [i \in DOMAIN nodes |-> NodeContent(nodes[i])][place(k)]]
  BY DEF Content, Picked, Rank, UpTo
<1> HIDE DEF count, place
<1>5. \A k \in 1 .. count :
        [i \in DOMAIN nodes |-> NodeContent(nodes[i])][place(k)] = NodeContent(nodes[place(k)])
  BY <1>2
<1>6. Content(dp) = [k \in 1 .. count |-> NodeContent(nodes[place(k)])]
  BY <1>4, <1>5
<1>7. /\ DOMAIN NodesOf(dp) = 1 .. count
      /\ \A k \in 1 .. count : NodesOf(dp)[k] = nodes[place(k)]
  BY <1>3
<1> QED
  BY <1>6, <1>7

\* The infos have room for every node.
LEMMA InfosSound ==
  ASSUME GInv, pinfo \in SoundSample
  PROVE  /\ Infos \in Sound(SoundInfo)
         /\ Infos.len = Len(nodes)
         /\ Len(nodes) \in Nat
         /\ Infos.slots \in Seq(SoundInfo)
         /\ DOMAIN Infos.slots = 1 .. Len(Infos.slots)
         /\ Len(Infos.slots) \in Nat
         /\ Len(nodes) <= Len(Infos.slots)
         /\ \A i \in DOMAIN Infos.slots : Infos.slots[i] \in SoundInfo
<1>1. Len(nodes) \in Nat
  BY LenProperties DEF GInv, IInv, TypeOK
<1>2. NoInfo \in SoundInfo
  <2>1. Empty \in Sound(Gids)
    BY EmptySeq DEF Empty, Sound
  <2> QED
    BY <2>1 DEF NoInfo, SoundInfo
<1>3. pinfo.node_entities_info_seq \in Sound(SoundInfo)
  BY DEF SoundSample
<1>4. Infos \in Sound(SoundInfo) /\ Infos.len = Len(nodes)
  BY <1>1, <1>2, <1>3, EnsureLengthSound DEF Infos
<1> QED
  BY <1>1, <1>4, LenProperties, ElementOfSeq DEF Sound

\* What is visible of a sample shows one info for each node, converted.
LEMMA ConvertedShows ==
  ASSUME GInv, pinfo \in SoundSample, NEW dp \in Participants
  PROVE  /\ Converted(dp) \in SoundSample
         /\ Converted(dp).gid = dp
         /\ Len(nodes) <= Len(Converted(dp).node_entities_info_seq.slots)
         /\ DOMAIN Visible(Converted(dp)) = DOMAIN NodesOf(dp)
         /\ \A i \in DOMAIN NodesOf(dp) :
              /\ Infos.slots[i] \in SoundInfo
              /\ Visible(Converted(dp))[i] =
                   ShownInfo(NodeToSample(NodesOf(dp)[i], Infos.slots[i]))
<1> DEFINE hosted == NodesOf(dp)
           old == Infos.slots
           slots == [i \in DOMAIN old |->
                       IF i <= Len(hosted) THEN NodeToSample(hosted[i], old[i]) ELSE old[i]]
           infos == [slots |-> slots, len |-> Len(hosted)]
<1>1. /\ hosted \in Seq(Node) /\ Len(hosted) \in 0 .. Len(nodes)
      /\ DOMAIN hosted = 1 .. Len(hosted)
      /\ \A i \in DOMAIN hosted : hosted[i] \in Node /\ Conforming(hosted[i])
  BY HostedNodes
<1>2. /\ DOMAIN old = 1 .. Len(old) /\ Len(old) \in Nat
      /\ Len(nodes) \in Nat /\ Len(nodes) <= Len(old)
      /\ \A i \in DOMAIN old : old[i] \in SoundInfo
  BY InfosSound
<1>3. Converted(dp) = [gid |-> dp, node_entities_info_seq |-> infos]
  BY DEF Converted
<1> HIDE DEF hosted, old
<1>4. \A i \in DOMAIN old : slots[i] \in SoundInfo
  <2> SUFFICES ASSUME NEW i \in DOMAIN old PROVE slots[i] \in SoundInfo
    OBVIOUS
  <2>1. CASE i <= Len(hosted)
    <3>1. i \in DOMAIN hosted
      BY <1>1, <1>2, <2>1
    <3>2. NodeToSample(hosted[i], old[i]) \in SoundInfo
      BY <1>1, <1>2, <3>1, NodeConverted
    <3> QED
      BY <2>1, <3>2
  <2>2. CASE ~(i <= Len(hosted))
    BY <1>2, <2>2
  <2> QED
    BY <2>1, <2>2
<1>5. \A i \in DOMAIN hosted :
        i \in DOMAIN old /\ slots[i] = NodeToSample(hosted[i], old[i])
  BY <1>1, <1>2
<1>6. slots \in [1 .. Len(old) -> SoundInfo]
  BY <1>2, <1>4
<1> HIDE DEF slots
<1>7. slots \in Seq(SoundInfo) /\ Len(slots) = Len(old)
  <2>1. slots \in Seq(SoundInfo)
    BY <1>2, <1>6, SeqDef
  <2> QED
    BY <1>2, <1>6, <2>1, LenProperties
<1>8. infos \in Sound(SoundInfo) /\ infos.len = Len(hosted) /\ infos.slots = slots
  BY <1>1, <1>2, <1>7 DEF Sound
<1> HIDE DEF infos
<1>9. /\ DOMAIN Shown(infos) = 1 .. Len(hosted)
      /\ \A i \in 1 .. Len(hosted) : Shown(infos)[i] = slots[i]
  BY <1>8, ShownElements
<1>10. Visible(Converted(dp)) = [i \in DOMAIN Shown(infos) |-> ShownInfo(Shown(infos)[i])]
  BY <1>3 DEF Visible
<1>11. \A i \in DOMAIN hosted :
         Visible(Converted(dp))[i] = ShownInfo(NodeToSample(hosted[i], old[i]))
  BY <1>1, <1>5, <1>9, <1>10
<1>12. DOMAIN Visible(Converted(dp)) = DOMAIN hosted
  BY <1>1, <1>9, <1>10
<1>13. /\ Converted(dp) \in SoundSample /\ Converted(dp).gid = dp
       /\ Len(nodes) <= Len(Converted(dp).node_entities_info_seq.slots)
  BY <1>2, <1>3, <1>7, <1>8 DEF SoundSample
<1> QED
  BY <1>2, <1>5, <1>11, <1>12, <1>13 DEF hosted, old

\* Whatever field there is no memory for, the infos stay sound.
LEMMA BrokenSound ==
  ASSUME GInv, pinfo \in SoundSample, NEW dp \in Participants,
         NEW j \in 0 .. Len(NodesOf(dp)) - 1, NEW new \in Broken(dp, j)
  PROVE  new \in SoundSample
<1> DEFINE hosted == NodesOf(dp)
           old == Infos.slots
           slots == [i \in DOMAIN old |->
                       IF i <= j THEN NodeToSample(hosted[i], old[i]) ELSE old[i]]
<1>1. /\ hosted \in Seq(Node) /\ Len(hosted) \in 0 .. Len(nodes)
      /\ DOMAIN hosted = 1 .. Len(hosted)
      /\ \A i \in DOMAIN hosted : hosted[i] \in Node /\ Conforming(hosted[i])
  BY HostedNodes
<1>2. /\ DOMAIN old = 1 .. Len(old) /\ Len(old) \in Nat
      /\ Len(nodes) \in Nat /\ Len(nodes) <= Len(old)
      /\ \A i \in DOMAIN old : old[i] \in SoundInfo
  BY InfosSound
<1>3. j \in 0 .. Len(hosted) - 1
  OBVIOUS
<1>4. PICK field \in Exhausted \cap InfoFields :
        new = [gid |-> dp,
               node_entities_info_seq |->
                 [slots |-> [slots EXCEPT ![j + 1] = BrokenInfo(hosted[j + 1], slots[j + 1], field)],
                  len |-> Len(nodes)]]
  BY DEF Broken
<1> HIDE DEF hosted, old
<1>5. slots \in [1 .. Len(old) -> SoundInfo]
  <2>1. \A i \in DOMAIN old : slots[i] \in SoundInfo
    <3> SUFFICES ASSUME NEW i \in DOMAIN old PROVE slots[i] \in SoundInfo
      OBVIOUS
    <3>1. CASE i <= j
      <4>1. i \in DOMAIN hosted
        BY <1>1, <1>2, <1>3, <3>1
      <4>2. NodeToSample(hosted[i], old[i]) \in SoundInfo
        BY <1>1, <1>2, <4>1, NodeConverted
      <4> QED
        BY <3>1, <4>2
    <3>2. CASE ~(i <= j)
      BY <1>2, <3>2
    <3> QED
      BY <3>1, <3>2
  <2> QED
    BY <1>2, <2>1
<1> HIDE DEF slots
<1> DEFINE node == hosted[j + 1]
           info == slots[j + 1]
           broken == BrokenInfo(node, info, field)
<1>6. /\ j + 1 \in DOMAIN hosted /\ j + 1 \in 1 .. Len(old)
      /\ node \in Node /\ info \in SoundInfo
  <2>1. j + 1 \in DOMAIN hosted /\ j + 1 \in 1 .. Len(old)
    BY <1>1, <1>2, <1>3
  <2> QED
    BY <1>1, <1>5, <2>1
<1> HIDE DEF node, info
<1>7. broken \in SoundInfo
  <2>1. Sized(node, info) \in SoundInfo
    BY <1>6, SizedSound
  <2>2. node.node_name \in Names /\ node.node_namespace \in Namespaces
    BY <1>6 DEF Node
  <2>3. info.reader_gid_seq \in Sound(Gids) /\ info.writer_gid_seq \in Sound(Gids)
    BY <1>6 DEF SoundInfo
  <2>4. CASE field = "node_name"
    BY <1>6, <2>4 DEF BrokenInfo, SoundInfo
  <2>5. CASE field = "node_namespace"
    BY <1>6, <2>2, <2>5 DEF BrokenInfo, SoundInfo
  <2>6. CASE field = "reader_gid_seq"
    BY <2>1, <2>3, <2>6 DEF BrokenInfo, SoundInfo
  <2>7. CASE field = "writer_gid_seq"
    BY <2>1, <2>3, <2>7 DEF BrokenInfo, SoundInfo
  <2> QED
    BY <2>4, <2>5, <2>6, <2>7 DEF InfoFields
<1>8. new.gid = dp /\ new = [gid |-> dp, node_entities_info_seq |->
        [slots |-> [slots EXCEPT ![j + 1] = broken], len |-> Len(nodes)]]
  BY <1>4 DEF node, info
<1> HIDE DEF broken
<1>9. [slots EXCEPT ![j + 1] = broken] \in [1 .. Len(old) -> SoundInfo]
  BY <1>5, <1>7
<1>10. /\ [slots EXCEPT ![j + 1] = broken] \in Seq(SoundInfo)
       /\ Len([slots EXCEPT ![j + 1] = broken]) = Len(old)
  <2>1. [slots EXCEPT ![j + 1] = broken] \in Seq(SoundInfo)
    BY <1>2, <1>9, SeqDef
  <2> QED
    BY <1>2, <1>9, <2>1, LenProperties
<1> QED
  BY <1>2, <1>8, <1>10 DEF SoundSample, Sound

\* So they do where the infos cannot be grown or cut.
LEMMA UnsizedSound ==
  ASSUME GInv, pinfo \in SoundSample, NEW dp \in Participants, NEW new \in Unsized(dp)
  PROVE  new \in SoundSample
<1>1. CASE new = [pinfo EXCEPT !.gid = dp]
  BY <1>1 DEF SoundSample
<1>2. CASE new = [Converted(dp) EXCEPT !.node_entities_info_seq.len = Len(nodes)]
  <2>1. /\ Converted(dp) \in SoundSample
        /\ Len(nodes) <= Len(Converted(dp).node_entities_info_seq.slots)
    BY ConvertedShows
  <2>2. Len(nodes) \in Nat
    BY InfosSound
  <2> QED
    BY <1>2, <2>1, <2>2 DEF SoundSample, Sound
<1> QED
  BY <1>1, <1>2 DEF Unsized

-----------------------------------------------------------------------------
(* The samples and the registry. *)

\* No DDS endpoint is on a topic of clients or services.
OnlyTopics == \A e \in Entities : DetectedType(e) \notin {"client", "service"}

\* What is visible after a conversion is what the registry says.
LEMMA ContentCopied ==
  ASSUME GInv, pinfo \in SoundSample, NEW dp \in Participants
  PROVE  /\ Uncovered(Visible(Converted(dp))) = Uncovered(Content(dp))
         /\ OnlyTopics => Visible(Converted(dp)) = Content(dp)
<1> DEFINE hosted == NodesOf(dp)
           visible == Visible(Converted(dp))
           said == Content(dp)
           new(i) == NodeToSample(hosted[i], Infos.slots[i])
<1>1. \A i \in DOMAIN hosted : hosted[i] \in Node /\ Conforming(hosted[i])
  BY HostedNodes
<1>2. /\ DOMAIN visible = DOMAIN hosted
      /\ \A i \in DOMAIN hosted :
           Infos.slots[i] \in SoundInfo /\ visible[i] = ShownInfo(new(i))
  BY ConvertedShows
<1>3. said = [i \in DOMAIN hosted |-> NodeContent(hosted[i])]
  BY ContentByNode
<1> HIDE DEF hosted, visible, said
<1>4. \A i \in DOMAIN hosted :
        /\ new(i).node_name = hosted[i].node_name
        /\ new(i).node_namespace = hosted[i].node_namespace
        /\ Shown(new(i).writer_gid_seq) = WritersOf(hosted[i])
        /\ Len(Shown(new(i).reader_gid_seq)) = Len(ReadersOf(hosted[i]))
        /\ WithReader(hosted[i]) \cap WithWriter(hosted[i]) = {}
             => Shown(new(i).reader_gid_seq) = ReadersOf(hosted[i])
  BY <1>1, <1>2, NodeConverted
<1> HIDE DEF new
<1>5. \A i \in DOMAIN hosted :
        /\ visible[i] = [node_name |-> hosted[i].node_name,
                         node_namespace |-> hosted[i].node_namespace,
                         readers |-> Shown(new(i).reader_gid_seq),
                         writers |-> WritersOf(hosted[i])]
        /\ said[i] = [node_name |-> hosted[i].node_name,
                      node_namespace |-> hosted[i].node_namespace,
                      readers |-> ReadersOf(hosted[i]), writers |-> WritersOf(hosted[i])]
  BY <1>2, <1>3, <1>4 DEF ShownInfo, NodeContent
<1>6. Uncovered(visible) = Uncovered(said)
  <2>1. \A i \in DOMAIN hosted : [visible[i] EXCEPT !.readers = Len(@)]
                                   = [said[i] EXCEPT !.readers = Len(@)]
    <3> SUFFICES ASSUME NEW i \in DOMAIN hosted
                 PROVE  [visible[i] EXCEPT !.readers = Len(@)]
                          = [said[i] EXCEPT !.readers = Len(@)]
      OBVIOUS
    <3>1. [visible[i] EXCEPT !.readers = Len(@)] =
            [node_name |-> hosted[i].node_name, node_namespace |-> hosted[i].node_namespace,
             readers |-> Len(Shown(new(i).reader_gid_seq)), writers |-> WritersOf(hosted[i])]
      <4>1. visible[i] = [node_name |-> hosted[i].node_name,
                     node_namespace |-> hosted[i].node_namespace,
                     readers |-> Shown(new(i).reader_gid_seq),
                     writers |-> WritersOf(hosted[i])]
        BY <1>5
      <4> QED
        BY <4>1
    <3>2. [said[i] EXCEPT !.readers = Len(@)] =
            [node_name |-> hosted[i].node_name, node_namespace |-> hosted[i].node_namespace,
             readers |-> Len(ReadersOf(hosted[i])), writers |-> WritersOf(hosted[i])]
      <4>1. said[i] = [node_name |-> hosted[i].node_name,
                     node_namespace |-> hosted[i].node_namespace,
                     readers |-> ReadersOf(hosted[i]),
                     writers |-> WritersOf(hosted[i])]
        BY <1>5
      <4> QED
        BY <4>1
    <3> QED
      BY <1>4, <3>1, <3>2
  <2>2. DOMAIN visible = DOMAIN hosted /\ DOMAIN said = DOMAIN hosted
    BY <1>2, <1>3
  <2> QED
    BY <2>1, <2>2 DEF Uncovered
<1>7. ASSUME OnlyTopics PROVE visible = said
  <2>1. \A i \in DOMAIN hosted : WithReader(hosted[i]) \cap WithWriter(hosted[i]) = {}
    <3> SUFFICES ASSUME NEW i \in DOMAIN hosted, NEW k \in WithReader(hosted[i]),
                        k \in WithWriter(hosted[i])
                 PROVE  FALSE
      OBVIOUS
    <3> DEFINE endp == hosted[i].endpoints[k]
    <3>1. /\ k \in DOMAIN hosted[i].endpoints
          /\ endp.dds_reader # NoEntity /\ endp.dds_writer # NoEntity
      BY DEF WithReader, WithWriter
    <3>2. endp \in Endpoint
      BY <1>1, <3>1, LenProperties, ElementOfSeq DEF Node
    <3>3. /\ DetectedType(endp.dds_reader) = endp.endp_type
          /\ endp.endp_type # "publisher" /\ endp.endp_type # "subscription"
      BY <1>1, <3>1 DEF Conforming
    <3> QED
      BY <1>7, <3>1, <3>2, <3>3 DEF OnlyTopics, Endpoint, Types
  <2>2. \A i \in DOMAIN hosted : visible[i] = said[i]
    BY <1>4, <1>5, <2>1
  <2>3. DOMAIN visible = DOMAIN hosted /\ DOMAIN said = DOMAIN hosted
    BY <1>2, <1>3
  <2>4. visible = [i \in DOMAIN hosted |-> visible[i]] /\ said = [i \in DOMAIN hosted |-> said[i]]
    BY <1>3, <2>3 DEF visible, Visible
  <2> QED
    BY <2>2, <2>4
<1> QED
  BY <1>6, <1>7 DEF visible, said

SaidInfo == [node_name : Names, node_namespace : Namespaces,
             readers : Seq(Entities), writers : Seq(Entities)]
SaidUncovered == [node_name : Names, node_namespace : Namespaces,
                  readers : Nat, writers : Seq(Entities)]

\* What the registry may say of a participant.
LEMMA ContentType ==
  ASSUME GInv, NEW dp
  PROVE  Content(dp) \in Seq(SaidInfo) /\ Uncovered(Content(dp)) \in Seq(SaidUncovered)
<1> DEFINE hosted == NodesOf(dp)
           count == Len(hosted)
<1>1. /\ count \in Nat /\ DOMAIN hosted = 1 .. count
      /\ \A i \in DOMAIN hosted : hosted[i] \in Node
  <2>1. Len(nodes) \in Nat
    BY LenProperties DEF GInv, IInv, TypeOK
  <2> QED
    BY <2>1, HostedNodes
<1>2. Content(dp) = [i \in 1 .. count |-> NodeContent(hosted[i])]
  BY <1>1, ContentByNode
<1> HIDE DEF hosted, count
<1>3. ASSUME NEW i \in 1 .. count
      PROVE  /\ NodeContent(hosted[i]) =
                  [node_name |-> hosted[i].node_name,
                   node_namespace |-> hosted[i].node_namespace,
                   readers |-> ReadersOf(hosted[i]), writers |-> WritersOf(hosted[i])]
             /\ hosted[i].node_name \in Names /\ hosted[i].node_namespace \in Namespaces
             /\ ReadersOf(hosted[i]) \in Seq(Entities) /\ WritersOf(hosted[i]) \in Seq(Entities)
             /\ Len(ReadersOf(hosted[i])) \in Nat
  <2>1. hosted[i] \in Node
    BY <1>1
  <2>2. /\ ReadersOf(hosted[i]) \in Seq(Entities) /\ WritersOf(hosted[i]) \in Seq(Entities)
        /\ Len(ReadersOf(hosted[i])) \in Nat
    BY <2>1, ListedElements
  <2> QED
    BY <2>1, <2>2 DEF NodeContent, Node
<1>4. Content(dp) \in Seq(SaidInfo)
  <2>1. \A i \in 1 .. count : NodeContent(hosted[i]) \in SaidInfo
    <3> SUFFICES ASSUME NEW i \in 1 .. count PROVE NodeContent(hosted[i]) \in SaidInfo
      OBVIOUS
    <3>1. /\ NodeContent(hosted[i]) =
                [node_name |-> hosted[i].node_name,
                 node_namespace |-> hosted[i].node_namespace,
                 readers |-> ReadersOf(hosted[i]), writers |-> WritersOf(hosted[i])]
          /\ hosted[i].node_name \in Names /\ hosted[i].node_namespace \in Namespaces
          /\ ReadersOf(hosted[i]) \in Seq(Entities) /\ WritersOf(hosted[i]) \in Seq(Entities)
      BY <1>3
    <3> QED
      BY <3>1 DEF SaidInfo
  <2>2. Content(dp) \in [1 .. count -> SaidInfo]
    BY <1>2, <2>1
  <2> QED
    BY <1>1, <2>2, SeqDef
<1>5. Uncovered(Content(dp)) \in Seq(SaidUncovered)
  <2> DEFINE uncovered(i) == [NodeContent(hosted[i]) EXCEPT !.readers = Len(@)]
  <2>1. Uncovered(Content(dp)) = [i \in 1 .. count |-> uncovered(i)]
    BY <1>2 DEF Uncovered
  <2>2. \A i \in 1 .. count : uncovered(i) \in SaidUncovered
    <3> SUFFICES ASSUME NEW i \in 1 .. count PROVE uncovered(i) \in SaidUncovered
      OBVIOUS
    <3>1. NodeContent(hosted[i]) =
            [node_name |-> hosted[i].node_name,
             node_namespace |-> hosted[i].node_namespace,
             readers |-> ReadersOf(hosted[i]), writers |-> WritersOf(hosted[i])]
      BY <1>3
    <3>2. uncovered(i) =
            [node_name |-> hosted[i].node_name,
             node_namespace |-> hosted[i].node_namespace,
             readers |-> Len(ReadersOf(hosted[i])), writers |-> WritersOf(hosted[i])]
      BY <3>1
    <3> QED
      BY <1>3, <3>2 DEF SaidUncovered
  <2> HIDE DEF uncovered
  <2>3. Uncovered(Content(dp)) \in [1 .. count -> SaidUncovered]
    BY <2>1, <2>2
  <2> QED
    BY <1>1, <2>3, SeqDef
<1> QED
  BY <1>4, <1>5

-----------------------------------------------------------------------------
(* The invariant of the update thread. *)

\* The stages of a round, and a sample that is sound whenever it is used again.
RoundInv ==
  /\ stage \in {"wait", "convert", "publish"}
  /\ to_visit \in Seq(Participants)
  /\ (to_visit = <<>>) <=> (stage = "wait")
  /\ pinfo \in SoundSample
  /\ DOMAIN announced = Participants

CInv == GInv /\ RoundInv

\* The first sample is empty.
LEMMA InitCInv == SampleInit => CInv
<1> SUFFICES ASSUME SampleInit PROVE RoundInv
  BY InitGInv DEF CInv
<1>1. Empty \in Sound(SoundInfo)
  BY EmptySeq DEF Empty, Sound
<1>2. pinfo \in SoundSample
  BY <1>1 DEF SampleInit, SoundSample
<1>3. <<>> \in Seq(Participants)
  BY EmptySeq
<1> QED
  BY <1>2, <1>3 DEF SampleInit, RoundInv

\* Every participant that is gathered is one.
LEMMA GatheredAreParticipants ==
  ASSUME GInv
  PROVE  GatheredParticipants \in Seq(Participants)
<1> DEFINE hosts == [i \in DOMAIN nodes |-> nodes[i].dds_participant]
<1>1. /\ Len(nodes) \in Nat /\ DOMAIN nodes = 1 .. Len(nodes)
      /\ \A i \in DOMAIN nodes : nodes[i] \in Node
  BY LenProperties, NodeFound DEF GInv, IInv, TypeOK
<1>2. hosts \in [1 .. Len(nodes) -> Participants]
  BY <1>1 DEF Node
<1>3. DOMAIN hosts = DOMAIN nodes /\ FirstNodes \in SUBSET DOMAIN nodes
  BY DEF FirstNodes
<1>4. GatheredParticipants = Picked(hosts, FirstNodes)
  BY DEF GatheredParticipants
<1> HIDE DEF hosts
<1>5. hosts \in Seq(Participants)
  BY <1>1, <1>2, SeqDef
<1> QED
  BY <1>3, <1>4, <1>5, PickedElements

\* A step of the round keeps the invariant.
LEMMA RoundKept ==
  ASSUME CInv, UpdateStep
  PROVE  RoundInv'
<1>0. GInv /\ RoundInv
  BY DEF CInv
<1>1. CASE Gather
  <2>1. to_visit' = GatheredParticipants /\ to_visit' \in Seq(Participants)
    BY <1>0, <1>1, GatheredAreParticipants DEF Gather
  <2> QED
    BY <1>0, <1>1, <2>1 DEF Gather, RoundInv
<1>2. CASE GatherFails
  BY <1>0, <1>2 DEF GatherFails, RoundInv, sampleVars
<1>3. ASSUME NEW dp \in Participants, Convert(dp)
      PROVE  RoundInv'
  <2>1. pinfo' \in SoundSample
    BY <1>0, <1>3, ConvertedShows DEF Convert, RoundInv
  <2> QED
    BY <1>0, <1>3, <2>1 DEF Convert, RoundInv
<1>4. ASSUME NEW dp \in Participants, ConvertFails(dp)
      PROVE  RoundInv'
  <2>1. pinfo' \in SoundSample
    BY <1>0, <1>4, BrokenSound, UnsizedSound DEF ConvertFails, RoundInv
  <2>2. <<>> \in Seq(Participants)
    BY EmptySeq
  <2> QED
    BY <1>0, <1>4, <2>1, <2>2 DEF ConvertFails, RoundInv
<1>5. CASE Publish
  <2>1. Tail(to_visit) \in Seq(Participants)
    <3>1. to_visit \in Seq(Participants) /\ to_visit # <<>>
      BY <1>0, <1>5 DEF Publish, RoundInv
    <3> QED
      BY <3>1, HeadTailProperties
  <2>2. DOMAIN announced' = Participants
    BY <1>0, <1>5 DEF Publish, RoundInv
  <2> QED
    BY <1>0, <1>5, <2>1, <2>2 DEF Publish, RoundInv
<1>6. CASE PublishFails
  <2>1. <<>> \in Seq(Participants)
    BY EmptySeq
  <2> QED
    BY <1>0, <1>6, <2>1 DEF PublishFails, RoundInv
<1> QED
  BY <1>1, <1>2, <1>3, <1>4, <1>5, <1>6 DEF UpdateStep

\* Every step keeps the invariant.
LEMMA StepCInv == CInv /\ [SampleNext]_graphVars => CInv'
<1> SUFFICES ASSUME CInv, [SampleNext]_graphVars PROVE RoundInv'
  BY StepGInv DEF CInv
<1>1. CASE UNCHANGED sampleVars
  BY <1>1 DEF sampleVars, CInv, RoundInv
<1>2. CASE UpdateStep
  BY <1>2, RoundKept
<1> QED
  BY <1>1, <1>2 DEF SampleNext, graphVars

\* What the invariant says about the slots.
LEMMA RoundSound == CInv => SampleTypeOK
<1> SUFFICES ASSUME RoundInv PROVE SampleTypeOK
  BY DEF CInv
<1> DEFINE infos == pinfo.node_entities_info_seq
<1>1. /\ pinfo.gid \in Participants
      /\ infos.slots \in Seq(SoundInfo) /\ infos.len \in Nat
      /\ Len(infos.slots) \in Nat /\ infos.len <= Len(infos.slots)
      /\ \A i \in DOMAIN infos.slots : infos.slots[i] \in SoundInfo
  BY LenProperties, ElementOfSeq DEF RoundInv, SoundSample, Sound
<1>2. SoundInfo \subseteq Info
  <2>1. Sound(Gids) \subseteq GidSeq
    BY DEF Sound, GidSeq
  <2> QED
    BY <2>1 DEF SoundInfo, Info
<1>3. infos.slots \in Seq(Info)
  BY <1>1, <1>2, SeqMonotonic
<1>4. \A i \in DOMAIN infos.slots :
        /\ infos.slots[i].reader_gid_seq.len <= Len(infos.slots[i].reader_gid_seq.slots)
        /\ infos.slots[i].writer_gid_seq.len <= Len(infos.slots[i].writer_gid_seq.slots)
  BY <1>1 DEF SoundInfo, Sound
<1> QED
  BY <1>1, <1>3, <1>4 DEF RoundInv, SampleTypeOK

-----------------------------------------------------------------------------
(* The round as seen from the network. *)

SampleOf(dp, infos) == {[gid |-> dp, nodes |-> infos]}

Copying(dp) ==
  /\ InFlight = {} /\ InFlight' = SampleOf(dp, Visible(Converted(dp)))
  /\ UNCHANGED <<nodes, announced>>

Delivering(dp, infos) ==
  /\ InFlight = SampleOf(dp, infos) /\ InFlight' = {}
  /\ announced' = [announced EXCEPT ![dp] = infos]
  /\ UNCHANGED nodes

Announcing == \E dp \in Participants : \E infos : Delivering(dp, infos)

Dropping ==
  /\ InFlight # {} /\ InFlight' = {}
  /\ UNCHANGED <<nodes, announced>>

\* Whatever a step does, the network sees it copy a participant, announce its
\* sample, drop it, or none of these.
LEMMA StepSeen ==
  ASSUME CInv, [SampleNext]_graphVars
  PROVE  \/ InFlight' = InFlight /\ announced' = announced
         \/ \E dp \in Participants : Copying(dp)
         \/ Announcing
         \/ Dropping
<1>0. RoundInv
  BY DEF CInv
<1>1. CASE UNCHANGED sampleVars
  BY <1>1 DEF sampleVars, InFlight
<1>2. CASE Gather
  BY <1>2 DEF Gather, InFlight
<1>3. CASE GatherFails
  BY <1>3 DEF GatherFails, sampleVars, InFlight
<1>4. ASSUME NEW dp \in Participants, Convert(dp)
      PROVE  Copying(dp)
  <2>1. Converted(dp).gid = dp
    BY DEF Converted
  <2>2. InFlight = {} /\ InFlight' = {[gid |-> pinfo'.gid, nodes |-> Visible(pinfo')]}
    BY <1>4 DEF Convert, InFlight
  <2>3. pinfo' = Converted(dp) /\ UNCHANGED <<nodes, announced>>
    BY <1>4 DEF Convert, handleVars, vars
  <2> QED
    BY <2>1, <2>2, <2>3 DEF Copying, SampleOf
<1>5. ASSUME NEW dp \in Participants, ConvertFails(dp)
      PROVE  InFlight' = InFlight /\ announced' = announced
  BY <1>5 DEF ConvertFails, InFlight
<1>6. CASE Publish
  <2>1. pinfo.gid \in Participants
    BY <1>0 DEF RoundInv, SoundSample
  <2>2. InFlight = SampleOf(pinfo.gid, Visible(pinfo)) /\ InFlight' = {}
    BY <1>6 DEF Publish, InFlight, SampleOf
  <2>3. announced' = [announced EXCEPT ![pinfo.gid] = Visible(pinfo)] /\ UNCHANGED nodes
    BY <1>6 DEF Publish, handleVars, vars
  <2> QED
    BY <2>1, <2>2, <2>3 DEF Announcing, Delivering
<1>7. CASE PublishFails
  <2>1. InFlight # {} /\ InFlight' = {} /\ UNCHANGED <<nodes, announced>>
    BY <1>7 DEF PublishFails, InFlight, handleVars, vars
  <2> QED
    BY <2>1 DEF Dropping
<1> QED
  BY <1>1, <1>2, <1>3, <1>4, <1>5, <1>6, <1>7 DEF SampleNext, UpdateStep, graphVars

\* While the registry stays, what it says stays.
LEMMA ContentStays ==
  ASSUME UNCHANGED nodes
  PROVE  \A dp : Content(dp)' = Content(dp)
BY DEF Content, HostedAt

\* The registry says what it may say.
LEMMA AllSaid ==
  GInv => \A dp \in Participants : /\ Content(dp) \in Seq(SaidInfo)
                                   /\ Uncovered(Content(dp)) \in Seq(SaidUncovered)
BY ContentType

\* So it does after a step.
LEMMA AllSaidNext ==
  GInv' => (\A dp \in Participants : /\ Content(dp) \in Seq(SaidInfo)
                                     /\ Uncovered(Content(dp)) \in Seq(SaidUncovered))'
BY AllSaid, PTL

\* The registry says nothing of participants without nodes.
LEMMA NothingSaid ==
  ASSUME SampleInit, NEW dp
  PROVE  /\ Content(dp) = <<>> /\ Uncovered(Content(dp)) = <<>>
         /\ Uncovered(<<>>) = <<>> /\ InFlight = {}
<1>1. nodes = <<>> /\ stage = "wait" /\ GInv
  BY InitGInv DEF SampleInit, HandlesInit, Init
<1>2. DOMAIN NodesOf(dp) = {}
  <2>1. Len(nodes) = 0
    BY <1>1, EmptySeq
  <2>2. Len(NodesOf(dp)) \in 0 .. 0 /\ DOMAIN NodesOf(dp) = 1 .. Len(NodesOf(dp))
    BY <1>1, <2>1, HostedNodes
  <2> QED
    BY <2>2
<1>3. DOMAIN Content(dp) = {} /\ DOMAIN Uncovered(Content(dp)) = {}
  BY <1>1, <1>2, ContentByNode DEF Uncovered
<1>4. \A seq : seq \in Seq({}) => (DOMAIN seq = {} => seq = <<>>)
  <2> SUFFICES ASSUME NEW seq \in Seq({}), DOMAIN seq = {} PROVE seq = <<>>
    OBVIOUS
  <2>1. Len(seq) \in Nat /\ DOMAIN seq = 1 .. Len(seq)
    BY LenProperties
  <2>2. Len(seq) = 0
    BY <2>1
  <2> QED
    BY <2>2, EmptySeq
<1>5. ASSUME NEW f, f = [i \in DOMAIN f |-> f[i]], DOMAIN f = {}
      PROVE  f = <<>>
  <2>1. f \in [1 .. 0 -> {}]
    BY <1>5
  <2>2. f \in Seq({})
    BY <2>1, SeqDef
  <2> QED
    BY <1>4, <1>5, <2>2
<1>6. Content(dp) = <<>>
  <2>1. Content(dp) = [i \in DOMAIN Content(dp) |-> Content(dp)[i]]
    BY <1>1, ContentByNode
  <2> QED
    BY <1>3, <1>5, <2>1
<1>7. Uncovered(Content(dp)) = <<>>
  <2>1. Uncovered(Content(dp)) =
          [i \in DOMAIN Uncovered(Content(dp)) |-> Uncovered(Content(dp))[i]]
    BY DEF Uncovered
  <2> QED
    BY <1>3, <1>5, <2>1
<1> QED
  BY <1>1, <1>6, <1>7 DEF InFlight

-----------------------------------------------------------------------------
(* Announcement, implemented. *)

\* Every participant is announced with every writer of its nodes.
LEMMA WritersStep ==
  ASSUME CInv, CInv', [SampleNext]_graphVars
  PROVE  [WriterAnnouncer!Next]_WriterAnnouncer!vars
<1> DEFINE said == [dp \in Participants |-> Uncovered(Content(dp))]
           shown == [dp \in Participants |-> Uncovered(announced[dp])]
           flying == {[sample EXCEPT !.nodes = Uncovered(@)] : sample \in InFlight}
<1>0. GInv' /\ GInv /\ pinfo \in SoundSample /\ DOMAIN announced = Participants
  BY DEF CInv, RoundInv
<1>1. \A dp \in Participants : \A infos :
        {[sample EXCEPT !.nodes = Uncovered(@)] : sample \in SampleOf(dp, infos)}
          = {[gid |-> dp, nodes |-> Uncovered(infos)]}
  BY DEF SampleOf
<1>2. ASSUME InFlight' = InFlight, announced' = announced
      PROVE  WriterAnnouncer!Next
  <2>1. said' \in [Participants -> Seq(SaidUncovered)]
    <3>1. \A dp \in Participants : Uncovered(Content(dp))' \in Seq(SaidUncovered)
      BY <1>0, AllSaidNext
    <3> QED
      BY <3>1
  <2>2. WriterAnnouncer!Change
    BY <1>2, <2>1 DEF WriterAnnouncer!Change, SaidUncovered
  <2> QED
    BY <2>2 DEF WriterAnnouncer!Next
<1>3. ASSUME \E dp \in Participants : Copying(dp)
      PROVE  WriterAnnouncer!Next
  <2>0. PICK dp \in Participants : Copying(dp)
    BY <1>3
  <2>1. flying = {} /\ flying' = {[gid |-> dp, nodes |-> Uncovered(Visible(Converted(dp)))]}
    BY <1>1, <2>0 DEF Copying
  <2>2. Uncovered(Visible(Converted(dp))) = Uncovered(Content(dp))
    BY <1>0, ContentCopied
  <2>3. said' = said /\ shown' = shown
    BY <2>0, ContentStays DEF Copying
  <2> QED
    BY <2>1, <2>2, <2>3 DEF WriterAnnouncer!Next, WriterAnnouncer!Copy
<1>4. ASSUME Announcing PROVE WriterAnnouncer!Next
  <2>0. PICK dp \in Participants : \E infos : Delivering(dp, infos)
    BY <1>4 DEF Announcing
  <2>1. PICK infos :
          /\ InFlight = SampleOf(dp, infos) /\ InFlight' = {}
          /\ announced' = [announced EXCEPT ![dp] = infos]
          /\ UNCHANGED nodes
    BY <2>0 DEF Delivering
  <2>2. flying = {[gid |-> dp, nodes |-> Uncovered(infos)]} /\ flying' = {}
    BY <1>1, <2>1
  <2>3. shown' = [shown EXCEPT ![dp] = Uncovered(infos)]
    BY <1>0, <2>1
  <2>4. said' = said
    BY <2>1, ContentStays
  <2>5. \E sample \in flying : shown' = [shown EXCEPT ![sample.gid] = sample.nodes]
    <3> DEFINE sample == [gid |-> dp, nodes |-> Uncovered(infos)]
    <3>1. sample \in flying /\ sample.gid = dp /\ sample.nodes = Uncovered(infos)
      BY <2>2
    <3> HIDE DEF sample, flying, shown
    <3> QED
      BY <2>3, <3>1
  <2> QED
    BY <2>2, <2>4, <2>5, Zenon DEF WriterAnnouncer!Next, WriterAnnouncer!Announce
<1>5. ASSUME Dropping PROVE WriterAnnouncer!Next
  <2>1. flying # {} /\ flying' = {} /\ said' = said /\ shown' = shown
    BY <1>5, ContentStays DEF Dropping
  <2> QED
    BY <2>1 DEF WriterAnnouncer!Next, WriterAnnouncer!Drop
<1>6. \/ InFlight' = InFlight /\ announced' = announced
      \/ \E dp \in Participants : Copying(dp)
      \/ Announcing
      \/ Dropping
  BY StepSeen
<1>7. WriterAnnouncer!Next
  BY <1>2, <1>3, <1>4, <1>5, <1>6
<1> QED
  BY <1>7

\* Before anything is registered nothing is announced.
LEMMA WritersInit == SampleInit => WriterAnnouncer!Init
<1> SUFFICES ASSUME SampleInit PROVE WriterAnnouncer!Init
  OBVIOUS
<1>1. /\ \A dp \in Participants : Uncovered(Content(dp)) = <<>>
      /\ \A dp \in Participants : Uncovered(announced[dp]) = <<>>
      /\ InFlight = {}
  <2>1. \A dp \in Participants : announced[dp] = <<>>
    BY DEF SampleInit
  <2>2. InFlight = {}
    BY DEF SampleInit, InFlight
  <2> QED
    BY <2>1, <2>2, NothingSaid
<1> QED
  BY <1>1 DEF WriterAnnouncer!Init

\* Without clients and services every participant is announced as it is.
LEMMA ContentStep ==
  ASSUME OnlyTopics, CInv, CInv', [SampleNext]_graphVars
  PROVE  [Announcer!Next]_Announcer!vars
<1> DEFINE said == [dp \in Participants |-> Content(dp)]
<1>0. GInv' /\ GInv /\ pinfo \in SoundSample
  BY DEF CInv, RoundInv
<1>1. ASSUME UNCHANGED nodes PROVE said' = said
  BY <1>1, ContentStays
<1>2. ASSUME InFlight' = InFlight, announced' = announced
      PROVE  Announcer!Next
  <2>1. said' \in [Participants -> Seq(SaidInfo)]
    BY <1>0, AllSaidNext
  <2>2. Announcer!Change
    BY <1>2, <2>1 DEF Announcer!Change, SaidInfo
  <2> QED
    BY <2>2 DEF Announcer!Next
<1>3. ASSUME \E dp \in Participants : Copying(dp)
      PROVE  Announcer!Next
  <2>0. PICK dp \in Participants : Copying(dp)
    BY <1>3
  <2>1. InFlight = {} /\ InFlight' = {[gid |-> dp, nodes |-> Visible(Converted(dp))]}
    BY <2>0 DEF Copying, SampleOf
  <2>2. Visible(Converted(dp)) = said[dp]
    BY <1>0, ContentCopied
  <2>3. said' = said /\ announced' = announced
    BY <1>1, <2>0 DEF Copying
  <2> QED
    BY <2>1, <2>2, <2>3 DEF Announcer!Next, Announcer!Copy
<1>4. ASSUME Announcing PROVE Announcer!Next
  <2>0. PICK dp \in Participants : \E infos : Delivering(dp, infos)
    BY <1>4 DEF Announcing
  <2>1. PICK infos :
          /\ InFlight = SampleOf(dp, infos) /\ InFlight' = {}
          /\ announced' = [announced EXCEPT ![dp] = infos]
          /\ UNCHANGED nodes
    BY <2>0 DEF Delivering
  <2>2. \E sample \in InFlight : announced' = [announced EXCEPT ![sample.gid] = sample.nodes]
    <3> DEFINE sample == [gid |-> dp, nodes |-> infos]
    <3>1. sample \in InFlight /\ sample.gid = dp /\ sample.nodes = infos
      BY <2>1 DEF SampleOf
    <3> HIDE DEF sample
    <3> QED
      BY <2>1, <3>1
  <2>3. said' = said
    BY <1>1, <2>1
  <2> QED
    BY <2>1, <2>2, <2>3, Zenon DEF Announcer!Next, Announcer!Announce
<1>5. ASSUME Dropping PROVE Announcer!Next
  <2>1. InFlight # {} /\ InFlight' = {} /\ said' = said /\ announced' = announced
    BY <1>1, <1>5 DEF Dropping
  <2> QED
    BY <2>1 DEF Announcer!Next, Announcer!Drop
<1>6. \/ InFlight' = InFlight /\ announced' = announced
      \/ \E dp \in Participants : Copying(dp)
      \/ Announcing
      \/ Dropping
  BY StepSeen
<1>7. Announcer!Next
  BY <1>2, <1>3, <1>4, <1>5, <1>6
<1> QED
  BY <1>7

\* Before anything is registered nothing is announced.
LEMMA ContentInit == SampleInit => Announcer!Init
<1> SUFFICES ASSUME SampleInit PROVE Announcer!Init
  OBVIOUS
<1>1. /\ \A dp \in Participants : Content(dp) = <<>>
      /\ InFlight = {} /\ announced = [dp \in Participants |-> <<>>]
  BY NothingSaid DEF SampleInit, InFlight
<1> QED
  BY <1>1 DEF Announcer!Init

\* A subscription's reader is where it was registered among the readers.
LEMMA SubscriptionShown ==
  ASSUME CInv, NEW dp \in Participants, Convert(dp),
         NEW i \in DOMAIN NodesOf(dp), NEW k \in DOMAIN NodesOf(dp)[i].endpoints,
         NodesOf(dp)[i].endpoints[k].endp_type = "subscription"
  PROVE  Visible(pinfo')[i].readers[Cardinality({j \in WithReader(NodesOf(dp)[i]) : j <= k})]
           = NodesOf(dp)[i].endpoints[k].dds_reader
<1> DEFINE node == NodesOf(dp)[i]
           new == NodeToSample(node, Infos.slots[i])
<1>1. GInv /\ pinfo \in SoundSample /\ pinfo' = Converted(dp)
  BY DEF CInv, RoundInv, Convert
<1>2. node \in Node /\ Conforming(node)
  BY <1>1, HostedNodes
<1>3. Infos.slots[i] \in SoundInfo /\ Visible(Converted(dp))[i] = ShownInfo(new)
  BY <1>1, ConvertedShows
<1>4. k \in WithReader(node) \ WithWriter(node)
  BY <1>2 DEF Conforming, WithReader, WithWriter
<1>5. Shown(new.reader_gid_seq)[Rank(WithReader(node), k)] = node.endpoints[k].dds_reader
  BY <1>2, <1>3, <1>4, NodeConverted
<1>6. Visible(pinfo')[i].readers = Shown(new.reader_gid_seq)
  <2>1. Visible(pinfo') = Visible(Converted(dp))
    BY <1>1
  <2> QED
    BY <1>3, <2>1 DEF ShownInfo
<1> HIDE DEF node, new
<1>7. Visible(pinfo')[i].readers[Rank(WithReader(node), k)] = node.endpoints[k].dds_reader
  BY <1>5, <1>6
<1> QED
  BY <1>7 DEF Rank, UpTo, node

-----------------------------------------------------------------------------
(* Theorems. *)

\* The invariant holds throughout.
LEMMA RoundsKeepInvariant == SampleSpec => []CInv
<1>1. SampleInit => CInv
  BY InitCInv
<1>2. CInv /\ [SampleNext]_graphVars => CInv'
  BY StepCInv
<1> QED
  BY <1>1, <1>2, PTL DEF SampleSpec

\* No slot of the sample is read that was not allocated, wherever earlier
\* conversions have stopped for lack of memory.
THEOREM SampleStaysSound == SampleSpec => []SampleTypeOK
  BY RoundsKeepInvariant, RoundSound, PTL

\* GraphSample implements Announcement for the nodes, the writers and the number
\* of readers of every participant: each sample is what the registry said at
\* one instant, and nothing of what the slots held before.
THEOREM WritersAnnounced == SampleSpec => WritersAreContent
<1>1. SampleInit => WriterAnnouncer!Init
  BY WritersInit
<1>2. CInv /\ CInv' /\ [SampleNext]_graphVars
        => [WriterAnnouncer!Next]_WriterAnnouncer!vars
  BY WritersStep
<1> QED
  BY <1>1, <1>2, RoundsKeepInvariant, PTL
     DEF SampleSpec, WritersAreContent, WriterAnnouncer!Spec

\* Without clients and services it implements Announcement altogether.
THEOREM SamplesImplementAnnouncement ==
  ASSUME OnlyTopics
  PROVE  SampleSpec => SampleIsContent
<1>1. SampleInit => Announcer!Init
  BY ContentInit
<1>2. CInv /\ CInv' /\ [SampleNext]_graphVars => [Announcer!Next]_Announcer!vars
  BY OnlyTopics, ContentStep
<1> QED
  BY <1>1, <1>2, RoundsKeepInvariant, PTL DEF SampleSpec, SampleIsContent, Announcer!Spec

\* The reader of every subscription is announced at the place of its
\* registration, whatever clients and services are registered around it.
THEOREM SubscriptionsAnnounced == SampleSpec => SubscriptionsAreAnnounced
<1> DEFINE Each ==
      \A dp \in Participants : Convert(dp) =>
        \A i \in DOMAIN NodesOf(dp) :
          \A k \in DOMAIN NodesOf(dp)[i].endpoints :
            LET node == NodesOf(dp)[i]
                endp == node.endpoints[k]
            IN  endp.endp_type = "subscription" =>
                  Visible(pinfo')[i].readers
                    [Cardinality({j \in WithReader(node) : j <= k})]
                      = endp.dds_reader
<1>1. CInv => Each
  BY SubscriptionShown
<1> QED
  BY <1>1, RoundsKeepInvariant, PTL DEF SubscriptionsAreAnnounced
=============================================================================
