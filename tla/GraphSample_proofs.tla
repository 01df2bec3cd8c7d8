-------------------------- MODULE GraphSample_proofs --------------------------
(***************************************************************************)
(* Machine-checked proofs about GraphHandles and GraphSample, for every    *)
(* set of names, DDS endpoints and participants, every largest handle and  *)
(* every number of nodes and endpoints.                                    *)
(***************************************************************************)
EXTENDS GraphSample, Registry_proofs

-----------------------------------------------------------------------------
(* Counters. *)

\* Where a size_t does not wrap around.
LEMMA PlusOne ==
  ASSUME NEW size \in Nat, size < MaxSize
  PROVE  Plus(size, 1) = size + 1
<1>1. ASSUME NEW a \in Nat, NEW b \in Nat, a < b
      PROVE  a % b = a
  BY <1>1
<1> QED
  BY <1>1, RegistryAssumption DEF Plus

LEMMA MinusOne ==
  ASSUME NEW size \in Nat, 0 < size, size <= MaxSize
  PROVE  Plus(size, MaxSize) = size - 1
<1>1. ASSUME NEW a \in Nat, NEW b \in Nat, a < b
      PROVE  (a + b) % b = a
  BY <1>1
<1>2. size - 1 \in Nat /\ MaxSize + 1 \in Nat /\ size - 1 < MaxSize + 1
      /\ size + MaxSize = (size - 1) + (MaxSize + 1)
  BY RegistryAssumption
<1> QED
  BY <1>1, <1>2 DEF Plus

-----------------------------------------------------------------------------
(* The endpoints of a node. *)

\* A node whose endpoints were all registered by calls: its counters match and
\* do not wrap around, each endpoint has the DDS endpoints of its type, and no
\* two endpoints have the same.
Conforming(node) ==
  /\ Len(node.endpoints) <= MaxEndpoints
  /\ node.readers_len = Cardinality(WithReader(node))
  /\ node.writers_len = Cardinality(WithWriter(node))
  /\ \A k \in DOMAIN node.endpoints :
       \A e \in {node.endpoints[k].dds_reader, node.endpoints[k].dds_writer} \ {NoEntity} :
         DetectedType(e) = node.endpoints[k].endp_type
  /\ \A i, j \in DOMAIN node.endpoints :
       /\ node.endpoints[i].dds_reader = node.endpoints[j].dds_reader
       /\ node.endpoints[i].dds_writer = node.endpoints[j].dds_writer
       => i = j
  /\ \A k \in DOMAIN node.endpoints :
       /\ node.endpoints[k].dds_reader = NoEntity <=> node.endpoints[k].endp_type = "publisher"
       /\ node.endpoints[k].dds_writer = NoEntity
            <=> node.endpoints[k].endp_type = "subscription"

\* register_local_endpoint on a node with room for one more.
LEMMA WithEndpointConforms ==
  ASSUME NEW node \in Node, Conforming(node), HasRoom(node),
         NEW type \in Types, NEW reader \in Args, NEW writer \in Args,
         Holding(node, reader, writer) = {},
         (reader = NoEntity) <=> (type = "publisher"),
         (writer = NoEntity) <=> (type = "subscription"),
         \A e \in {reader, writer} \ {NoEntity} : DetectedType(e) = type
  PROVE  Conforming(WithEndpoint(node, type, reader, writer))
<1> DEFINE fresh == NextHandle(node.endp_handle_next, HandlesIn(node.endpoints))
           endp == [handle |-> fresh.handle, endp_type |-> type,
                    dds_reader |-> reader, dds_writer |-> writer]
           list == Append(node.endpoints, endp)
           new == WithEndpoint(node, type, reader, writer)
           count == Len(node.endpoints)
<1>1. node.endpoints \in Seq(Endpoint) /\ node.endp_handle_next \in Counters
  BY DEF Node
<1>2. count \in Nat /\ count < MaxEndpoints /\ MaxEndpoints \in 0 .. MaxSize
      /\ MaxSize \in Nat /\ DOMAIN node.endpoints = 1 .. count
  BY <1>1, LenProperties, RegistryAssumption DEF HasRoom
<1>3. fresh.handle \in Handles
  BY <1>1, EndpointHandles, HandleIsFree DEF HasRoom
<1>4. /\ new.endpoints = list
      /\ new.readers_len = IF reader # NoEntity THEN Plus(node.readers_len, 1)
                                               ELSE node.readers_len
      /\ new.writers_len = IF writer # NoEntity THEN Plus(node.writers_len, 1)
                                               ELSE node.writers_len
  BY DEF WithEndpoint, Node
<1> HIDE DEF fresh, new
<1>5. /\ endp \in Endpoint /\ endp.endp_type = type
      /\ endp.dds_reader = reader /\ endp.dds_writer = writer
  BY <1>3 DEF Endpoint, Args
<1> HIDE DEF endp
<1>6. /\ list \in Seq(Endpoint) /\ Len(list) = count + 1
      /\ \A k \in 1 .. count : list[k] = node.endpoints[k]
      /\ list[count + 1] = endp
  BY <1>1, <1>5, AppendProperties
<1>7. DOMAIN list = 1 .. count + 1
  BY <1>6, LenProperties
<1>8. /\ Cardinality(Places(list, Reading)) =
           IF endp \in Reading THEN Cardinality(Places(node.endpoints, Reading)) + 1
                               ELSE Cardinality(Places(node.endpoints, Reading))
      /\ Cardinality(Places(list, Writing)) =
           IF endp \in Writing THEN Cardinality(Places(node.endpoints, Writing)) + 1
                               ELSE Cardinality(Places(node.endpoints, Writing))
  BY <1>1, <1>5, AppendCount
<1>9. endp \in Reading <=> reader # NoEntity
  BY <1>5 DEF Reading
<1>10. endp \in Writing <=> writer # NoEntity
  BY <1>5 DEF Writing
<1> HIDE DEF list
<1>11. Len(new.endpoints) <= MaxEndpoints
  BY <1>2, <1>4, <1>6
<1>12. /\ WithReader(new) = Places(list, Reading)
       /\ WithWriter(new) = Places(list, Writing)
       /\ WithReader(node) = Places(node.endpoints, Reading)
       /\ WithWriter(node) = Places(node.endpoints, Writing)
       /\ Cardinality(WithReader(node)) \in 0 .. count
       /\ Cardinality(WithWriter(node)) \in 0 .. count
  BY <1>1, <1>4, <1>6, CountedPlaces
<1>13. new.readers_len = Cardinality(WithReader(new))
  <2>1. node.readers_len \in Nat /\ node.readers_len < MaxSize
        /\ node.readers_len = Cardinality(Places(node.endpoints, Reading))
    BY <1>2, <1>12 DEF Conforming
  <2>2. Plus(node.readers_len, 1) = node.readers_len + 1
    BY <2>1, PlusOne
  <2> QED
    BY <1>4, <1>8, <1>9, <1>12, <2>1, <2>2
<1>14. new.writers_len = Cardinality(WithWriter(new))
  <2>1. node.writers_len \in Nat /\ node.writers_len < MaxSize
        /\ node.writers_len = Cardinality(Places(node.endpoints, Writing))
    BY <1>2, <1>12 DEF Conforming
  <2>2. Plus(node.writers_len, 1) = node.writers_len + 1
    BY <2>1, PlusOne
  <2> QED
    BY <1>4, <1>8, <1>10, <1>12, <2>1, <2>2
<1>15. ASSUME NEW k \in DOMAIN list,
              NEW e \in {list[k].dds_reader, list[k].dds_writer} \ {NoEntity}
       PROVE  DetectedType(e) = list[k].endp_type
  <2>1. CASE k = count + 1
    BY <1>5, <1>6, <2>1
  <2>2. CASE k # count + 1
    <3>1. k \in DOMAIN node.endpoints /\ list[k] = node.endpoints[k]
      BY <1>2, <1>6, <1>7, <2>2
    <3> QED
      BY <3>1 DEF Conforming
  <2> QED
    BY <2>1, <2>2
<1>16. ASSUME NEW i \in DOMAIN list, NEW j \in DOMAIN list,
              list[i].dds_reader = list[j].dds_reader,
              list[i].dds_writer = list[j].dds_writer
       PROVE  i = j
  <2>1. \A k \in 1 .. count : ~(/\ list[k].dds_reader = reader
                                /\ list[k].dds_writer = writer)
    BY <1>2, <1>6 DEF Holding
  <2>2. ~(i \in 1 .. count /\ j = count + 1) /\ ~(j \in 1 .. count /\ i = count + 1)
    BY <1>5, <1>6, <1>16, <2>1
  <2>3. CASE i \in 1 .. count /\ j \in 1 .. count
    <3>1. /\ i \in DOMAIN node.endpoints /\ j \in DOMAIN node.endpoints
          /\ list[i] = node.endpoints[i] /\ list[j] = node.endpoints[j]
      BY <1>2, <1>6, <2>3
    <3>2. \A m, n \in DOMAIN node.endpoints :
             /\ node.endpoints[m].dds_reader = node.endpoints[n].dds_reader
             /\ node.endpoints[m].dds_writer = node.endpoints[n].dds_writer
             => m = n
      BY DEF Conforming
    <3> QED
      BY ONLY <1>16, <3>1, <3>2, Zenon
  <2> QED
    BY <1>2, <1>7, <2>2, <2>3
<1>17. \A k \in DOMAIN list :
         /\ list[k].dds_reader = NoEntity <=> list[k].endp_type = "publisher"
         /\ list[k].dds_writer = NoEntity <=> list[k].endp_type = "subscription"
  BY <1>2, <1>5, <1>6, <1>7 DEF Conforming
<1>18. Conforming(new)
  BY <1>4, <1>11, <1>13, <1>14, <1>15, <1>16, <1>17 DEF Conforming
<1> QED
  BY <1>18 DEF new

\* finalize_endpoint.
LEMMA WithoutEndpointConforms ==
  ASSUME NEW node \in Node, Conforming(node), NEW k \in DOMAIN node.endpoints
  PROVE  Conforming(WithoutEndpoint(node, k))
<1> DEFINE endp == node.endpoints[k]
           list == RemoveAt(node.endpoints, k)
           new == WithoutEndpoint(node, k)
           place(j) == IF j < k THEN j ELSE j + 1
<1>1. node.endpoints \in Seq(Endpoint)
  BY DEF Node
<1>2. Len(node.endpoints) \in Nat /\ DOMAIN node.endpoints = 1 .. Len(node.endpoints)
      /\ endp \in Endpoint
  BY <1>1, LenProperties, ElementOfSeq
<1>3. /\ list \in Seq(Endpoint)
      /\ Len(list) = Len(node.endpoints) - 1
      /\ \A j \in DOMAIN list : list[j] = node.endpoints[place(j)]
  BY <1>1, RemoveAtElement
<1>4. DOMAIN list = 1 .. Len(node.endpoints) - 1
  BY <1>3, LenProperties
<1>5. /\ new.endpoints = list
      /\ new.readers_len = IF endp.dds_reader # NoEntity
                           THEN Plus(node.readers_len, MaxSize) ELSE node.readers_len
      /\ new.writers_len = IF endp.dds_writer # NoEntity
                           THEN Plus(node.writers_len, MaxSize) ELSE node.writers_len
  BY DEF WithoutEndpoint, Node
<1>6. /\ Cardinality(Places(list, Reading)) =
           IF endp \in Reading THEN Cardinality(Places(node.endpoints, Reading)) - 1
                               ELSE Cardinality(Places(node.endpoints, Reading))
      /\ Cardinality(Places(list, Writing)) =
           IF endp \in Writing THEN Cardinality(Places(node.endpoints, Writing)) - 1
                               ELSE Cardinality(Places(node.endpoints, Writing))
  BY <1>1, RemoveCount
<1>7. endp \in Reading <=> endp.dds_reader # NoEntity
  BY <1>2 DEF Reading
<1>8. endp \in Writing <=> endp.dds_writer # NoEntity
  BY <1>2 DEF Writing
<1> HIDE DEF list, new
<1>9. Len(new.endpoints) <= MaxEndpoints
  BY <1>2, <1>3, <1>5, RegistryAssumption DEF Conforming
<1>10. /\ WithReader(new) = Places(list, Reading)
       /\ WithWriter(new) = Places(list, Writing)
       /\ WithReader(node) = Places(node.endpoints, Reading)
       /\ WithWriter(node) = Places(node.endpoints, Writing)
       /\ Cardinality(WithReader(new)) \in Nat
       /\ Cardinality(WithWriter(new)) \in Nat
       /\ Cardinality(WithReader(node)) \in 0 .. MaxSize
       /\ Cardinality(WithWriter(node)) \in 0 .. MaxSize
  <2>1. /\ Cardinality(WithReader(new)) \in 0 .. Len(list)
        /\ Cardinality(WithWriter(new)) \in 0 .. Len(list)
        /\ Cardinality(WithReader(node)) \in 0 .. Len(node.endpoints)
        /\ Cardinality(WithWriter(node)) \in 0 .. Len(node.endpoints)
        /\ Len(node.endpoints) <= MaxEndpoints
    BY <1>1, <1>3, <1>5, CountedPlaces DEF Conforming
  <2>2. MaxEndpoints \in 0 .. MaxSize /\ MaxSize \in Nat
    BY RegistryAssumption
  <2>3. /\ Cardinality(WithReader(new)) \in Nat
        /\ Cardinality(WithWriter(new)) \in Nat
        /\ Cardinality(WithReader(node)) \in 0 .. MaxSize
        /\ Cardinality(WithWriter(node)) \in 0 .. MaxSize
    BY <1>2, <1>3, <2>1, <2>2
  <2> QED
    BY <1>1, <1>3, <1>5, <2>3, CountedPlaces
<1>11. new.readers_len = Cardinality(WithReader(new))
  <2>1. node.readers_len \in Nat /\ node.readers_len <= MaxSize
        /\ node.readers_len = Cardinality(Places(node.endpoints, Reading))
    BY <1>10, RegistryAssumption DEF Conforming
  <2>2. CASE endp.dds_reader # NoEntity
    <3>1. 0 < node.readers_len
      BY <1>6, <1>7, <1>10, <2>1, <2>2
    <3>2. Plus(node.readers_len, MaxSize) = node.readers_len - 1
      BY <2>1, <3>1, MinusOne
    <3> QED
      BY <1>5, <1>6, <1>7, <1>10, <2>1, <2>2, <3>2
  <2> QED
    BY <1>5, <1>6, <1>7, <1>10, <2>1, <2>2
<1>12. new.writers_len = Cardinality(WithWriter(new))
  <2>1. node.writers_len \in Nat /\ node.writers_len <= MaxSize
        /\ node.writers_len = Cardinality(Places(node.endpoints, Writing))
    BY <1>10, RegistryAssumption DEF Conforming
  <2>2. CASE endp.dds_writer # NoEntity
    <3>1. 0 < node.writers_len
      BY <1>6, <1>8, <1>10, <2>1, <2>2
    <3>2. Plus(node.writers_len, MaxSize) = node.writers_len - 1
      BY <2>1, <3>1, MinusOne
    <3> QED
      BY <1>5, <1>6, <1>8, <1>10, <2>1, <2>2, <3>2
  <2> QED
    BY <1>5, <1>6, <1>8, <1>10, <2>1, <2>2
<1>13. \A j \in DOMAIN list : place(j) \in DOMAIN node.endpoints
  BY <1>2, <1>4
<1>14. \A i, j \in DOMAIN list : place(i) = place(j) => i = j
  BY <1>2, <1>4
<1> HIDE DEF place
<1>15. /\ \A j \in DOMAIN list :
            \A e \in {list[j].dds_reader, list[j].dds_writer} \ {NoEntity} :
              DetectedType(e) = list[j].endp_type
       /\ \A i, j \in DOMAIN list :
            /\ list[i].dds_reader = list[j].dds_reader
            /\ list[i].dds_writer = list[j].dds_writer
            => i = j
       /\ \A j \in DOMAIN list :
            /\ list[j].dds_reader = NoEntity <=> list[j].endp_type = "publisher"
            /\ list[j].dds_writer = NoEntity <=> list[j].endp_type = "subscription"
  BY <1>3, <1>13, <1>14 DEF Conforming
<1>16. Conforming(new)
  BY <1>5, <1>9, <1>11, <1>12, <1>15 DEF Conforming
<1> QED
  BY <1>16 DEF new

\* A failed registration leaves the endpoints and their counters alone.
LEMMA WithHandleDrawnConforms ==
  ASSUME NEW node \in Node, Conforming(node)
  PROVE  Conforming(WithHandleDrawn(node))
<1>1. /\ WithHandleDrawn(node).endpoints = node.endpoints
      /\ WithHandleDrawn(node).readers_len = node.readers_len
      /\ WithHandleDrawn(node).writers_len = node.writers_len
  BY DEF WithHandleDrawn, Node
<1> QED
  BY <1>1 DEF Conforming, WithReader, WithWriter

-----------------------------------------------------------------------------
(* What the application knows. *)

KnownNode(node) ==
  [handle |-> node.handle, name |-> node.node_name,
   namespace |-> node.node_namespace, participant |-> node.dds_participant]

KnownEndpoint(node, endp) ==
  [node |-> node.handle, handle |-> endp.handle, endp_type |-> endp.endp_type,
   dds_reader |-> endp.dds_reader, dds_writer |-> endp.dds_writer]

EndpointsOf(node) ==
  {KnownEndpoint(node, node.endpoints[k]) : k \in DOMAIN node.endpoints}

\* The application knows the nodes and the endpoints on the registry, and none
\* else, and every DDS endpoint that it has registered exists.
Knowledge ==
  /\ granted_nodes = {KnownNode(nodes[i]) : i \in DOMAIN nodes}
  /\ granted = UNION {EndpointsOf(nodes[i]) : i \in DOMAIN nodes}
  /\ \A endp \in granted : {endp.dds_reader, endp.dds_writer} \subseteq created \cup {NoEntity}

\* The inductive invariant of the calls.
GInv == IInv /\ (\A n \in DOMAIN nodes : Conforming(nodes[n])) /\ Knowledge

\* The lowest of one number.
LEMMA LowestOfOne ==
  ASSUME NEW x \in Nat
  PROVE  LowestOf({x}) = x
  BY LowestIsIn

\* A handle leads to its node.
LEMMA NodeFound ==
  ASSUME GInv, NEW i \in DOMAIN nodes
  PROVE  /\ nodes[i] \in Node /\ Conforming(nodes[i]) /\ DistinctEndpoints(nodes[i])
         /\ NodesAt(nodes[i].handle) = {i}
         /\ LowestOf(NodesAt(nodes[i].handle)) = i
         /\ NodeAt(nodes[i].handle) = nodes[i]
<1>1. NodesInv
  BY DEF GInv, IInv, TypeOK, NodesInv
<1>2. i \in Nat /\ nodes[i] \in Node /\ DistinctEndpoints(nodes[i])
  BY <1>1, NodesFacts
<1>3. NodesAt(nodes[i].handle) = {i}
  BY <1>1 DEF NodesAt, NodesInv, UniqueNodeHandles
<1>4. LowestOf(NodesAt(nodes[i].handle)) = i
  BY <1>2, <1>3, LowestOfOne
<1> QED
  BY <1>2, <1>3, <1>4 DEF NodeAt, GInv

\* A handle of a node leads to its endpoint, and so do its DDS endpoints: an
\* endpoint of another type that shared one of them would not conform.
LEMMA EndpointFound ==
  ASSUME NEW node \in Node, Conforming(node), DistinctEndpoints(node),
         NEW k \in DOMAIN node.endpoints
  PROVE  /\ EndpointsAt(node, node.endpoints[k].handle) = {k}
         /\ LowestOf(EndpointsAt(node, node.endpoints[k].handle)) = k
         /\ Holding(node, node.endpoints[k].dds_reader, node.endpoints[k].dds_writer) = {k}
         /\ LowestOf(Holding(node, node.endpoints[k].dds_reader,
                             node.endpoints[k].dds_writer)) = k
<1> DEFINE endp(j) == node.endpoints[j]
<1>1. k \in Nat
  <2>1. node.endpoints \in Seq(Endpoint)
    BY DEF Node
  <2> QED
    BY <2>1, LenProperties
<1>2. EndpointsAt(node, endp(k).handle) = {k}
  BY DEF EndpointsAt, DistinctEndpoints
<1>3. ASSUME NEW j \in Holding(node, endp(k).dds_reader, endp(k).dds_writer)
      PROVE  j = k
  <2>1. /\ j \in DOMAIN node.endpoints
        /\ endp(k).dds_reader = NoEntity \/ endp(j).dds_reader = endp(k).dds_reader
        /\ endp(k).dds_writer = NoEntity \/ endp(j).dds_writer = endp(k).dds_writer
    BY <1>3 DEF Holding
  <2>2. endp(j).endp_type = endp(k).endp_type
    <3>1. CASE endp(k).dds_reader # NoEntity
      <4>1. /\ DetectedType(endp(k).dds_reader) = endp(k).endp_type
            /\ DetectedType(endp(j).dds_reader) = endp(j).endp_type
        BY <2>1, <3>1 DEF Conforming
      <4> QED
        BY <2>1, <3>1, <4>1
    <3>2. CASE endp(k).dds_reader = NoEntity
      <4>1. endp(k).dds_writer # NoEntity
        BY <3>2 DEF Conforming
      <4>2. /\ DetectedType(endp(k).dds_writer) = endp(k).endp_type
            /\ DetectedType(endp(j).dds_writer) = endp(j).endp_type
        BY <2>1, <4>1 DEF Conforming
      <4> QED
        BY <2>1, <4>1, <4>2
    <3> QED
      BY <3>1, <3>2
  <2>3. endp(j).dds_reader = endp(k).dds_reader /\ endp(j).dds_writer = endp(k).dds_writer
    BY <2>1, <2>2 DEF Conforming
  <2> QED
    BY <2>1, <2>3 DEF Conforming
<1>4. k \in Holding(node, endp(k).dds_reader, endp(k).dds_writer)
  BY DEF Holding
<1>5. Holding(node, endp(k).dds_reader, endp(k).dds_writer) = {k}
  BY <1>3, <1>4
<1> QED
  BY <1>1, <1>2, <1>5, LowestOfOne

\* Registering an endpoint adds what the application learns.
LEMMA WithEndpointKnown ==
  ASSUME NEW node \in Node, NEW type \in Types, NEW reader \in Args, NEW writer \in Args,
         HandlesIn(node.endpoints) # Handles
  PROVE  LET new == WithEndpoint(node, type, reader, writer)
         IN  /\ new.handle = node.handle
             /\ new.node_name = node.node_name
             /\ new.node_namespace = node.node_namespace
             /\ new.dds_participant = node.dds_participant
             /\ EndpointsOf(new) = EndpointsOf(node) \cup
                  {[node |-> node.handle,
                    handle |-> new.endpoints[Len(new.endpoints)].handle,
                    endp_type |-> type, dds_reader |-> reader, dds_writer |-> writer]}
<1> DEFINE fresh == NextHandle(node.endp_handle_next, HandlesIn(node.endpoints))
           endp == [handle |-> fresh.handle, endp_type |-> type,
                    dds_reader |-> reader, dds_writer |-> writer]
           list == Append(node.endpoints, endp)
           new == WithEndpoint(node, type, reader, writer)
           count == Len(node.endpoints)
<1>1. node.endpoints \in Seq(Endpoint) /\ node.endp_handle_next \in Counters
  BY DEF Node
<1>2. fresh.handle \in Handles
  BY <1>1, EndpointHandles, HandleIsFree
<1>3. /\ new.endpoints = list
      /\ new.handle = node.handle
      /\ new.node_name = node.node_name
      /\ new.node_namespace = node.node_namespace
      /\ new.dds_participant = node.dds_participant
  BY DEF WithEndpoint, Node
<1> HIDE DEF fresh, new
<1>4. /\ endp \in Endpoint /\ endp.endp_type = type
      /\ endp.dds_reader = reader /\ endp.dds_writer = writer
  BY <1>2 DEF Endpoint, Args
<1> HIDE DEF endp
<1>5. /\ list \in Seq(Endpoint) /\ Len(list) = count + 1
      /\ \A k \in 1 .. count : list[k] = node.endpoints[k]
      /\ list[count + 1] = endp
  BY <1>1, <1>4, AppendProperties
<1>6. DOMAIN list = 1 .. count + 1 /\ DOMAIN node.endpoints = 1 .. count /\ count \in Nat
  BY <1>1, <1>5, LenProperties
<1> HIDE DEF list
<1>7. EndpointsOf(new) = EndpointsOf(node) \cup {KnownEndpoint(node, endp)}
  <2>1. \A k \in DOMAIN list :
          KnownEndpoint(new, new.endpoints[k]) = KnownEndpoint(node, list[k])
    BY <1>3 DEF KnownEndpoint
  <2>2. EndpointsOf(new) = {KnownEndpoint(node, list[k]) : k \in DOMAIN list}
    BY <1>3, <2>1 DEF EndpointsOf
  <2>3. \A k \in DOMAIN node.endpoints :
          KnownEndpoint(node, list[k]) = KnownEndpoint(node, node.endpoints[k])
    BY <1>5, <1>6
  <2>4. DOMAIN list = DOMAIN node.endpoints \cup {count + 1}
        /\ KnownEndpoint(node, list[count + 1]) = KnownEndpoint(node, endp)
    BY <1>5, <1>6
  <2> HIDE DEF count
  <2> QED
    BY ONLY <2>2, <2>3, <2>4, Zenon DEF EndpointsOf
<1>8. KnownEndpoint(node, endp) =
        [node |-> node.handle, handle |-> new.endpoints[Len(new.endpoints)].handle,
         endp_type |-> type, dds_reader |-> reader, dds_writer |-> writer]
  BY <1>3, <1>4, <1>5 DEF KnownEndpoint
<1> QED
  BY <1>3, <1>7, <1>8 DEF new

\* Unregistering an endpoint takes away what the application knew of it.
LEMMA WithoutEndpointKnown ==
  ASSUME NEW node \in Node, DistinctEndpoints(node), NEW k \in DOMAIN node.endpoints
  PROVE  LET new == WithoutEndpoint(node, k)
         IN  /\ new.handle = node.handle
             /\ new.node_name = node.node_name
             /\ new.node_namespace = node.node_namespace
             /\ new.dds_participant = node.dds_participant
             /\ EndpointsOf(new) =
                  EndpointsOf(node) \ {KnownEndpoint(node, node.endpoints[k])}
<1> DEFINE list == RemoveAt(node.endpoints, k)
           new == WithoutEndpoint(node, k)
           place(j) == IF j < k THEN j ELSE j + 1
           count == Len(node.endpoints)
<1>1. node.endpoints \in Seq(Endpoint)
  BY DEF Node
<1>2. count \in Nat /\ DOMAIN node.endpoints = 1 .. count
  BY <1>1, LenProperties
<1>3. /\ list \in Seq(Endpoint) /\ Len(list) = count - 1
      /\ \A j \in DOMAIN list : list[j] = node.endpoints[place(j)]
  BY <1>1, RemoveAtElement
<1>4. DOMAIN list = 1 .. count - 1
  BY <1>3, LenProperties
<1>5. /\ new.endpoints = list
      /\ new.handle = node.handle
      /\ new.node_name = node.node_name
      /\ new.node_namespace = node.node_namespace
      /\ new.dds_participant = node.dds_participant
  BY DEF WithoutEndpoint, Node
<1> HIDE DEF list, new
<1>6. \A j \in DOMAIN list : place(j) \in DOMAIN node.endpoints \ {k}
  BY <1>2, <1>4
<1>7. \A i \in DOMAIN node.endpoints \ {k} : \E j \in DOMAIN list : place(j) = i
  <2> SUFFICES ASSUME NEW i \in DOMAIN node.endpoints \ {k}
               PROVE  \E j \in DOMAIN list : place(j) = i
    OBVIOUS
  <2> DEFINE j == IF i < k THEN i ELSE i - 1
  <2>1. j \in DOMAIN list /\ place(j) = i
    BY <1>2, <1>4
  <2> QED
    BY <2>1
<1> HIDE DEF place
<1>8. \A j \in DOMAIN list :
        KnownEndpoint(new, new.endpoints[j]) = KnownEndpoint(node, node.endpoints[place(j)])
  BY <1>3, <1>5 DEF KnownEndpoint
<1>9. EndpointsOf(new) =
        {KnownEndpoint(node, node.endpoints[i]) : i \in DOMAIN node.endpoints \ {k}}
  BY <1>5, <1>6, <1>7, <1>8 DEF EndpointsOf
<1>10. \A i \in DOMAIN node.endpoints \ {k} :
         KnownEndpoint(node, node.endpoints[i]) # KnownEndpoint(node, node.endpoints[k])
  <2>1. \A i \in DOMAIN node.endpoints :
          KnownEndpoint(node, node.endpoints[i]).handle = node.endpoints[i].handle
    BY DEF KnownEndpoint
  <2> QED
    BY <2>1 DEF DistinctEndpoints
<1> QED
  BY <1>5, <1>9, <1>10 DEF EndpointsOf, new

\* A drawn handle is nothing the application learns of.
LEMMA WithHandleDrawnKnown ==
  ASSUME NEW node \in Node
  PROVE  LET new == WithHandleDrawn(node)
         IN  /\ new.handle = node.handle
             /\ new.node_name = node.node_name
             /\ new.node_namespace = node.node_namespace
             /\ new.dds_participant = node.dds_participant
             /\ EndpointsOf(new) = EndpointsOf(node)
<1>1. LET new == WithHandleDrawn(node)
      IN  /\ new.handle = node.handle
          /\ new.node_name = node.node_name
          /\ new.node_namespace = node.node_namespace
          /\ new.dds_participant = node.dds_participant
          /\ new.endpoints = node.endpoints
  BY DEF WithHandleDrawn, Node
<1> QED
  BY <1>1 DEF EndpointsOf, KnownEndpoint

-----------------------------------------------------------------------------
(* The calls keep the invariant. *)

\* One node changes and keeps its handle, name and participant.
LEMMA ChangeNode ==
  ASSUME GInv, NEW i \in DOMAIN nodes, NEW node, Conforming(node),
         node.handle = nodes[i].handle,
         node.node_name = nodes[i].node_name,
         node.node_namespace = nodes[i].node_namespace,
         node.dds_participant = nodes[i].dds_participant,
         nodes' = [nodes EXCEPT ![i] = node]
  PROVE  /\ \A n \in DOMAIN nodes' : Conforming(nodes'[n])
         /\ {KnownNode(nodes'[j]) : j \in DOMAIN nodes'} = granted_nodes
         /\ UNION {EndpointsOf(nodes'[j]) : j \in DOMAIN nodes'} =
              (granted \ EndpointsOf(nodes[i])) \cup EndpointsOf(node)
<1>1. nodes \in Seq(Node) /\ UniqueNodeHandles
  BY DEF GInv, IInv, TypeOK
<1>2. /\ DOMAIN nodes' = DOMAIN nodes
      /\ \A j \in DOMAIN nodes : nodes'[j] = IF j = i THEN node ELSE nodes[j]
  BY <1>1
<1>3. \A n \in DOMAIN nodes' : Conforming(nodes'[n])
  BY <1>2 DEF GInv
<1>4. \A j \in DOMAIN nodes : KnownNode(nodes'[j]) = KnownNode(nodes[j])
  BY <1>2 DEF KnownNode
<1>5. {KnownNode(nodes'[j]) : j \in DOMAIN nodes'} = granted_nodes
  BY <1>2, <1>4 DEF GInv, Knowledge
<1>6. ASSUME NEW j \in DOMAIN nodes, j # i
      PROVE  EndpointsOf(nodes[j]) \cap EndpointsOf(nodes[i]) = {}
  <2>1. nodes[j].handle # nodes[i].handle
    BY <1>1, <1>6 DEF UniqueNodeHandles
  <2>2. /\ \A endp \in EndpointsOf(nodes[j]) : endp.node = nodes[j].handle
        /\ \A endp \in EndpointsOf(nodes[i]) : endp.node = nodes[i].handle
    BY DEF EndpointsOf, KnownEndpoint
  <2> QED
    BY <2>1, <2>2
<1>7. granted = UNION {EndpointsOf(nodes[j]) : j \in DOMAIN nodes}
  BY DEF GInv, Knowledge
<1>8. UNION {EndpointsOf(nodes'[j]) : j \in DOMAIN nodes'} =
        (granted \ EndpointsOf(nodes[i])) \cup EndpointsOf(node)
  <2>1. ASSUME NEW endp, NEW j \in DOMAIN nodes, endp \in EndpointsOf(nodes'[j])
        PROVE  endp \in (granted \ EndpointsOf(nodes[i])) \cup EndpointsOf(node)
    BY <1>2, <1>6, <1>7, <2>1
  <2>2. ASSUME NEW endp \in (granted \ EndpointsOf(nodes[i])) \cup EndpointsOf(node)
        PROVE  \E j \in DOMAIN nodes : endp \in EndpointsOf(nodes'[j])
    BY <1>2, <1>7
  <2> QED
    BY <1>2, <2>1, <2>2
<1> QED
  BY <1>3, <1>5, <1>8

\* Graph::register_local_node.
LEMMA RegisterNodeGInv ==
  ASSUME GInv, NEW name \in Names, NEW namespace \in Namespaces \cup {EmptyNamespace},
         NEW dp \in Participants \cup {NoParticipant},
         register_local_node(name, namespace, dp)
  PROVE  GInv'
<1> DEFINE ns == CNamespace(namespace)
           participant == CParticipant(dp)
           fresh == NextHandle(node_handle_next, HandlesIn(nodes))
           node == [handle |-> fresh.handle, node_name |-> name,
                    node_namespace |-> IF ns = NullNamespace THEN Root ELSE ns,
                    dds_participant |-> participant, endpoints |-> <<>>,
                    readers_len |-> 0, writers_len |-> 0, endp_handle_next |-> 0]
           known == [handle |-> nodes'[Len(nodes')].handle, name |-> name,
                     namespace |-> IF namespace \in Namespaces THEN namespace ELSE Root,
                     participant |-> IF dp \in Participants THEN dp ELSE GraphParticipant]
<1>1. ns \in Namespaces \cup {NullNamespace} /\ participant \in Participants
  BY HandlesAssumption DEF CNamespace, CParticipant
<1>2. /\ RegisterLocalNode(name, ns, participant)
      /\ granted_nodes' = granted_nodes \cup {known}
      /\ granted' = granted
  BY DEF register_local_node
<1>3. IInv'
  BY <1>1, <1>2, NodeCallIInv DEF NodeCall, GInv
<1>4. nodes' = Append(nodes, node) /\ created' = created
  BY <1>2 DEF RegisterLocalNode
<1>5. nodes \in Seq(Node) /\ nodes' \in Seq(Node)
  BY <1>3 DEF GInv, IInv, TypeOK
<1>6. /\ node.handle = fresh.handle
      /\ node.node_name = name
      /\ node.node_namespace = IF ns = NullNamespace THEN Root ELSE ns
      /\ node.dds_participant = participant
      /\ node.endpoints = <<>>
      /\ node.readers_len = 0 /\ node.writers_len = 0
  OBVIOUS
<1> HIDE DEF node, fresh
<1>7. /\ DOMAIN nodes' = DOMAIN nodes \cup {Len(nodes) + 1}
      /\ \A j \in DOMAIN nodes : nodes'[j] = nodes[j]
      /\ nodes'[Len(nodes) + 1] = node
      /\ Len(nodes') = Len(nodes) + 1
  BY <1>4, <1>5, LenProperties
<1>8. Conforming(node)
  <2>1. <<>> \in Seq(Endpoint) /\ DOMAIN <<>> = {} /\ Len(<<>>) = 0
    BY EmptySeq
  <2>2. WithReader(node) = {} /\ WithWriter(node) = {}
    BY <1>6, <2>1 DEF WithReader, WithWriter
  <2>3. Cardinality({}) = 0 /\ 0 <= MaxEndpoints
    BY FS_EmptySet, RegistryAssumption
  <2> QED
    BY <1>6, <2>1, <2>2, <2>3 DEF Conforming
<1>9. \A n \in DOMAIN nodes' : Conforming(nodes'[n])
  BY <1>7, <1>8 DEF GInv
<1>10. KnownNode(node) = known
  <2>1. known.handle = node.handle /\ known.name = node.node_name
    BY <1>6, <1>7
  <2>2. node.node_namespace = IF namespace \in Namespaces THEN namespace ELSE Root
    BY <1>6, RegistryAssumption, HandlesAssumption DEF CNamespace
  <2>3. node.dds_participant = IF dp \in Participants THEN dp ELSE GraphParticipant
    BY <1>6, HandlesAssumption DEF CParticipant
  <2> QED
    BY <2>1, <2>2, <2>3 DEF KnownNode
<1> HIDE DEF known
<1>11. granted_nodes' = {KnownNode(nodes'[j]) : j \in DOMAIN nodes'}
  <2>1. granted_nodes = {KnownNode(nodes[j]) : j \in DOMAIN nodes}
    BY DEF GInv, Knowledge
  <2> QED
    BY <1>2, <1>7, <1>10, <2>1
<1>12. granted' = UNION {EndpointsOf(nodes'[j]) : j \in DOMAIN nodes'}
  <2>1. EndpointsOf(node) = {}
    BY <1>6, EmptySeq DEF EndpointsOf
  <2>2. granted = UNION {EndpointsOf(nodes[j]) : j \in DOMAIN nodes}
    BY DEF GInv, Knowledge
  <2> QED
    BY <1>2, <1>7, <2>1, <2>2
<1> QED
  BY <1>2, <1>3, <1>4, <1>9, <1>11, <1>12 DEF GInv, Knowledge

\* Graph::unregister_local_node, with the handle of a node that is registered.
LEMMA UnregisterNodeGInv ==
  ASSUME GInv, NEW known \in granted_nodes, unregister_local_node(known)
  PROVE  GInv'
<1>1. PICK i \in DOMAIN nodes : known = KnownNode(nodes[i])
  BY DEF GInv, Knowledge
<1>2. known.handle = nodes[i].handle
  BY <1>1 DEF KnownNode
<1>3. /\ UnregisterLocalNode(i)
      /\ granted_nodes' = granted_nodes \ {known}
      /\ granted' = {endp \in granted : endp.node # known.handle}
  BY <1>2, NodeFound DEF unregister_local_node
<1>4. IInv'
  BY <1>3, NodeCallIInv DEF NodeCall, GInv
<1> DEFINE place(j) == IF j < i THEN j ELSE j + 1
<1>5. nodes \in Seq(Node) /\ UniqueNodeHandles
      /\ nodes' = RemoveAt(nodes, i) /\ created' = created
  BY <1>3 DEF GInv, IInv, TypeOK, UnregisterLocalNode
<1>6. /\ nodes' \in Seq(Node) /\ Len(nodes') = Len(nodes) - 1
      /\ \A j \in DOMAIN nodes' : nodes'[j] = nodes[place(j)]
  BY <1>5, RemoveAtElement
<1>7. /\ DOMAIN nodes' = 1 .. Len(nodes) - 1
      /\ DOMAIN nodes = 1 .. Len(nodes) /\ Len(nodes) \in Nat
  BY <1>5, <1>6, LenProperties
<1>8. \A j \in DOMAIN nodes' : place(j) \in DOMAIN nodes \ {i}
  BY <1>7
<1>9. \A n \in DOMAIN nodes \ {i} : \E j \in DOMAIN nodes' : place(j) = n
  <2> SUFFICES ASSUME NEW n \in DOMAIN nodes \ {i}
               PROVE  \E j \in DOMAIN nodes' : place(j) = n
    OBVIOUS
  <2> DEFINE j == IF n < i THEN n ELSE n - 1
  <2>1. j \in DOMAIN nodes' /\ place(j) = n
    BY <1>7
  <2> QED
    BY <2>1
<1> HIDE DEF place
<1>10. \A n \in DOMAIN nodes' : Conforming(nodes'[n])
  BY <1>6, <1>8 DEF GInv
<1>11. granted_nodes' = {KnownNode(nodes'[j]) : j \in DOMAIN nodes'}
  <2>1. granted_nodes = {KnownNode(nodes[n]) : n \in DOMAIN nodes}
    BY DEF GInv, Knowledge
  <2>2. \A n \in DOMAIN nodes \ {i} : KnownNode(nodes[n]) # known
    <3>1. \A n \in DOMAIN nodes : KnownNode(nodes[n]).handle = nodes[n].handle
      BY DEF KnownNode
    <3> QED
      BY <1>2, <1>5, <3>1 DEF UniqueNodeHandles
  <2>3. granted_nodes' = {KnownNode(nodes[n]) : n \in DOMAIN nodes \ {i}}
    BY <1>1, <1>3, <2>1, <2>2
  <2> QED
    BY <1>6, <1>8, <1>9, <2>3
<1>12. granted' = UNION {EndpointsOf(nodes'[j]) : j \in DOMAIN nodes'}
  <2>1. granted = UNION {EndpointsOf(nodes[n]) : n \in DOMAIN nodes}
    BY DEF GInv, Knowledge
  <2>2. \A n \in DOMAIN nodes : \A endp \in EndpointsOf(nodes[n]) :
          endp.node = nodes[n].handle
    BY DEF EndpointsOf, KnownEndpoint
  <2>3. granted' = UNION {EndpointsOf(nodes[n]) : n \in DOMAIN nodes \ {i}}
    <3>1. \A n \in DOMAIN nodes \ {i} : nodes[n].handle # known.handle
      BY <1>2, <1>5 DEF UniqueNodeHandles
    <3>2. ASSUME NEW endp \in granted'
          PROVE  endp \in UNION {EndpointsOf(nodes[n]) : n \in DOMAIN nodes \ {i}}
      BY <1>2, <1>3, <2>1, <2>2, <3>2
    <3>3. ASSUME NEW n \in DOMAIN nodes \ {i}, NEW endp \in EndpointsOf(nodes[n])
          PROVE  endp \in granted'
      BY <1>3, <2>1, <2>2, <3>1, <3>3
    <3> QED
      BY <3>2, <3>3
  <2> QED
    BY <1>6, <1>8, <1>9, <2>3
<1> QED
  BY <1>3, <1>4, <1>5, <1>10, <1>11, <1>12 DEF GInv, Knowledge

\* The calls that register and unregister endpoints keep the part of Registry.
LEMMA EndpointCallKept ==
  ASSUME GInv, NEW i \in DOMAIN nodes,
         \/ \E type \in Types, reader \in Readers, writer \in CreatedWriters :
              \/ RegisterLocalEndpoint(i, type, reader, writer)
              \/ RegisterLocalEndpointFails(i, type, reader, writer)
         \/ \E k \in DOMAIN nodes[i].endpoints : UnregisterLocalEndpointByHandle(i, k)
  PROVE  IInv'
<1>1. EndpointCall
  BY DEF EndpointCall
<1> QED
  BY <1>1, EndpointCallIInv DEF GInv, Kept

\* Graph::register_local_subscription, _publisher, _client and _service.
LEMMA RegisterEndpointGInv ==
  ASSUME GInv, NEW known \in granted_nodes, NEW type \in Types, NEW reader \in Readers,
         NEW writer \in CreatedWriters, register_local_endpoint(known, type, reader, writer)
  PROVE  GInv'
<1>1. PICK i \in DOMAIN nodes : known = KnownNode(nodes[i])
  BY DEF GInv, Knowledge
<1>2. known.handle = nodes[i].handle
  BY <1>1 DEF KnownNode
<1> DEFINE node == WithEndpoint(nodes[i], type, reader, writer)
           learned == [node |-> known.handle,
                       handle |-> node.endpoints[Len(node.endpoints)].handle,
                       endp_type |-> type, dds_reader |-> reader, dds_writer |-> writer]
<1>3. /\ nodes[i] \in Node /\ Conforming(nodes[i])
      /\ LowestOf(NodesAt(known.handle)) = i
  BY <1>2, NodeFound
<1>4. /\ RegisterLocalEndpoint(i, type, reader, writer)
      /\ granted' = granted \cup
           {[node |-> known.handle,
             handle |-> nodes'[i].endpoints[Len(nodes'[i].endpoints)].handle,
             endp_type |-> type, dds_reader |-> reader, dds_writer |-> writer]}
      /\ granted_nodes' = granted_nodes
  BY <1>3 DEF register_local_endpoint
<1>5. IInv'
  BY <1>4, EndpointCallKept
<1>6. /\ nodes' = [nodes EXCEPT ![i] = node] /\ created' = created
      /\ HasRoom(nodes[i])
      /\ (reader = NoEntity) <=> (type = "publisher")
      /\ (writer = NoEntity) <=> (type = "subscription")
      /\ Holding(nodes[i], reader, writer) = {}
      /\ \A e \in {reader, writer} \ {NoEntity} : DetectedType(e) = type
  BY <1>4 DEF RegisterLocalEndpoint, EndpointArguments, UpdateNode
<1>7. /\ reader \in Args /\ writer \in Args
      /\ {reader, writer} \subseteq created \cup {NoEntity}
  BY DEF Readers, CreatedWriters, Args, GInv, IInv, TypeOK
<1>8. Conforming(node)
  BY <1>3, <1>6, <1>7, WithEndpointConforms
<1>9. /\ node.handle = nodes[i].handle
      /\ node.node_name = nodes[i].node_name
      /\ node.node_namespace = nodes[i].node_namespace
      /\ node.dds_participant = nodes[i].dds_participant
      /\ EndpointsOf(node) = EndpointsOf(nodes[i]) \cup {learned}
  BY <1>2, <1>3, <1>6, <1>7, WithEndpointKnown DEF HasRoom
<1>10. nodes'[i] = node
  BY <1>6 DEF GInv, IInv, TypeOK
<1>11. granted' = granted \cup {learned}
  BY <1>4, <1>10
<1>12. learned.dds_reader = reader /\ learned.dds_writer = writer
  OBVIOUS
<1> HIDE DEF node, learned
<1>13. /\ \A n \in DOMAIN nodes' : Conforming(nodes'[n])
       /\ {KnownNode(nodes'[j]) : j \in DOMAIN nodes'} = granted_nodes
       /\ UNION {EndpointsOf(nodes'[j]) : j \in DOMAIN nodes'} =
            (granted \ EndpointsOf(nodes[i])) \cup EndpointsOf(node)
  BY <1>6, <1>8, <1>9, ChangeNode
<1>14. EndpointsOf(nodes[i]) \subseteq granted
  BY DEF GInv, Knowledge
<1>15. granted' = UNION {EndpointsOf(nodes'[j]) : j \in DOMAIN nodes'}
  BY <1>9, <1>11, <1>13, <1>14
<1>16. \A endp \in granted' :
         {endp.dds_reader, endp.dds_writer} \subseteq created' \cup {NoEntity}
  BY <1>6, <1>7, <1>11, <1>12 DEF GInv, Knowledge
<1> QED
  BY <1>4, <1>5, <1>13, <1>15, <1>16 DEF GInv, Knowledge

\* The same when it runs out of memory.
LEMMA RegisterEndpointFailsGInv ==
  ASSUME GInv, NEW known \in granted_nodes, NEW type \in Types, NEW reader \in Readers,
         NEW writer \in CreatedWriters,
         register_local_endpoint_fails(known, type, reader, writer)
  PROVE  GInv'
<1>1. PICK i \in DOMAIN nodes : known = KnownNode(nodes[i])
  BY DEF GInv, Knowledge
<1>2. known.handle = nodes[i].handle
  BY <1>1 DEF KnownNode
<1> DEFINE node == WithHandleDrawn(nodes[i])
<1>3. /\ nodes[i] \in Node /\ Conforming(nodes[i])
      /\ LowestOf(NodesAt(known.handle)) = i
  BY <1>2, NodeFound
<1>4. /\ RegisterLocalEndpointFails(i, type, reader, writer)
      /\ granted' = granted /\ granted_nodes' = granted_nodes
  BY <1>3 DEF register_local_endpoint_fails
<1>5. IInv'
  BY <1>4, EndpointCallKept
<1>6. nodes' = [nodes EXCEPT ![i] = node] /\ created' = created
  BY <1>4 DEF RegisterLocalEndpointFails
<1>7. /\ Conforming(node)
      /\ node.handle = nodes[i].handle
      /\ node.node_name = nodes[i].node_name
      /\ node.node_namespace = nodes[i].node_namespace
      /\ node.dds_participant = nodes[i].dds_participant
      /\ EndpointsOf(node) = EndpointsOf(nodes[i])
  BY <1>3, WithHandleDrawnConforms, WithHandleDrawnKnown
<1> HIDE DEF node
<1>8. /\ \A n \in DOMAIN nodes' : Conforming(nodes'[n])
      /\ {KnownNode(nodes'[j]) : j \in DOMAIN nodes'} = granted_nodes
      /\ UNION {EndpointsOf(nodes'[j]) : j \in DOMAIN nodes'} =
           (granted \ EndpointsOf(nodes[i])) \cup EndpointsOf(node)
  BY <1>6, <1>7, ChangeNode
<1>9. EndpointsOf(nodes[i]) \subseteq granted
  BY DEF GInv, Knowledge
<1>10. granted' = UNION {EndpointsOf(nodes'[j]) : j \in DOMAIN nodes'}
  BY <1>4, <1>7, <1>8, <1>9
<1> QED
  BY <1>4, <1>5, <1>6, <1>8, <1>10 DEF GInv, Knowledge

\* An endpoint that the application knows is taken off its node.
LEMMA UnregisterKnown ==
  ASSUME GInv, NEW i \in DOMAIN nodes, NEW k \in DOMAIN nodes[i].endpoints,
         UnregisterLocalEndpointByHandle(i, k),
         granted' = granted \ {KnownEndpoint(nodes[i], nodes[i].endpoints[k])},
         granted_nodes' = granted_nodes
  PROVE  GInv'
<1> DEFINE node == WithoutEndpoint(nodes[i], k)
           known == KnownEndpoint(nodes[i], nodes[i].endpoints[k])
<1>1. nodes[i] \in Node /\ Conforming(nodes[i]) /\ DistinctEndpoints(nodes[i])
  BY NodeFound
<1>2. IInv'
  BY EndpointCallKept
<1>3. nodes' = [nodes EXCEPT ![i] = node] /\ created' = created
  BY DEF UnregisterLocalEndpointByHandle, UpdateNode
<1>4. Conforming(node)
  BY <1>1, WithoutEndpointConforms
<1>5. /\ node.handle = nodes[i].handle
      /\ node.node_name = nodes[i].node_name
      /\ node.node_namespace = nodes[i].node_namespace
      /\ node.dds_participant = nodes[i].dds_participant
      /\ EndpointsOf(node) = EndpointsOf(nodes[i]) \ {known}
  BY <1>1, WithoutEndpointKnown
<1>6. known \in EndpointsOf(nodes[i])
  BY DEF EndpointsOf
<1> HIDE DEF node, known
<1>7. /\ \A n \in DOMAIN nodes' : Conforming(nodes'[n])
      /\ {KnownNode(nodes'[j]) : j \in DOMAIN nodes'} = granted_nodes
      /\ UNION {EndpointsOf(nodes'[j]) : j \in DOMAIN nodes'} =
           (granted \ EndpointsOf(nodes[i])) \cup EndpointsOf(node)
  BY <1>3, <1>4, <1>5, ChangeNode
<1>8. EndpointsOf(nodes[i]) \subseteq granted
  BY DEF GInv, Knowledge
<1>9. granted' = granted \ {known}
  BY DEF known
<1>10. granted' = UNION {EndpointsOf(nodes'[j]) : j \in DOMAIN nodes'}
  BY <1>5, <1>6, <1>7, <1>8, <1>9
<1> QED
  BY <1>2, <1>3, <1>7, <1>9, <1>10 DEF GInv, Knowledge

\* An endpoint that the application knows is on a node.
LEMMA KnownIsOn ==
  ASSUME GInv, NEW endp \in granted
  PROVE  \E i \in DOMAIN nodes : \E k \in DOMAIN nodes[i].endpoints :
           /\ endp = KnownEndpoint(nodes[i], nodes[i].endpoints[k])
           /\ LowestOf(NodesAt(endp.node)) = i
           /\ NodeAt(endp.node) = nodes[i]
           /\ LowestOf(EndpointsAt(nodes[i], endp.handle)) = k
           /\ Holding(nodes[i], endp.dds_reader, endp.dds_writer) = {k}
           /\ LowestOf(Holding(nodes[i], endp.dds_reader, endp.dds_writer)) = k
<1>1. PICK i \in DOMAIN nodes : endp \in EndpointsOf(nodes[i])
  BY DEF GInv, Knowledge
<1>2. PICK k \in DOMAIN nodes[i].endpoints :
        endp = KnownEndpoint(nodes[i], nodes[i].endpoints[k])
  BY <1>1 DEF EndpointsOf
<1>3. /\ endp.node = nodes[i].handle
      /\ endp.handle = nodes[i].endpoints[k].handle
      /\ endp.dds_reader = nodes[i].endpoints[k].dds_reader
      /\ endp.dds_writer = nodes[i].endpoints[k].dds_writer
  BY <1>2 DEF KnownEndpoint
<1>4. /\ nodes[i] \in Node /\ Conforming(nodes[i]) /\ DistinctEndpoints(nodes[i])
      /\ LowestOf(NodesAt(endp.node)) = i
      /\ NodeAt(endp.node) = nodes[i]
  BY <1>3, NodeFound
<1>5. /\ LowestOf(EndpointsAt(nodes[i], endp.handle)) = k
      /\ Holding(nodes[i], endp.dds_reader, endp.dds_writer) = {k}
      /\ LowestOf(Holding(nodes[i], endp.dds_reader, endp.dds_writer)) = k
  <2> DEFINE node == nodes[i]
  <2>1. node \in Node /\ Conforming(node) /\ DistinctEndpoints(node) /\ k \in DOMAIN node.endpoints
    BY <1>4
  <2> HIDE DEF node
  <2>2. /\ LowestOf(EndpointsAt(node, node.endpoints[k].handle)) = k
        /\ Holding(node, node.endpoints[k].dds_reader, node.endpoints[k].dds_writer) = {k}
        /\ LowestOf(Holding(node, node.endpoints[k].dds_reader,
                            node.endpoints[k].dds_writer)) = k
    BY <2>1, EndpointFound
  <2> QED
    BY <1>3, <2>2, Zenon DEF node
<1> QED
  BY <1>2, <1>4, <1>5

\* Graph::unregister_local_subscription, _publisher, _client and _service, with
\* the DDS endpoints or with the handle of an endpoint that is registered.
LEMMA UnregisterEndpointGInv ==
  ASSUME GInv, NEW endp \in granted,
         unregister_local_endpoint(endp) \/ unregister_local_endpoint_by_handle(endp)
  PROVE  GInv'
<1>0. PICK i \in DOMAIN nodes : \E k \in DOMAIN nodes[i].endpoints :
        /\ endp = KnownEndpoint(nodes[i], nodes[i].endpoints[k])
        /\ LowestOf(NodesAt(endp.node)) = i
        /\ NodeAt(endp.node) = nodes[i]
        /\ LowestOf(EndpointsAt(nodes[i], endp.handle)) = k
        /\ LowestOf(Holding(nodes[i], endp.dds_reader, endp.dds_writer)) = k
  BY KnownIsOn
<1>1. PICK k \in DOMAIN nodes[i].endpoints :
        /\ endp = KnownEndpoint(nodes[i], nodes[i].endpoints[k])
        /\ LowestOf(NodesAt(endp.node)) = i
        /\ NodeAt(endp.node) = nodes[i]
        /\ LowestOf(EndpointsAt(nodes[i], endp.handle)) = k
        /\ LowestOf(Holding(nodes[i], endp.dds_reader, endp.dds_writer)) = k
  BY <1>0
<1>2. granted' = granted \ {endp} /\ granted_nodes' = granted_nodes
  BY DEF unregister_local_endpoint, unregister_local_endpoint_by_handle
<1>3. UnregisterLocalEndpointByHandle(i, k)
  BY <1>1 DEF unregister_local_endpoint, unregister_local_endpoint_by_handle,
    UnregisterLocalEndpoint, UnregisterLocalEndpointByHandle
<1> QED
  BY <1>1, <1>2, <1>3, UnregisterKnown

\* The nodes, the handles and the inspection stay.
LEMMA NodesStay ==
  ASSUME GInv, UNCHANGED <<nodes, node_handle_next, inspection, drawn,
                           granted_nodes, granted>>,
         created' \subseteq Entities, update_queued' \in BOOLEAN,
         \A endp \in granted :
           {endp.dds_reader, endp.dds_writer} \subseteq created' \cup {NoEntity}
  PROVE  GInv'
<1>1. IInv'
  BY DEF GInv, IInv, TypeOK, UniqueNodeHandles, UniqueNodeNames, UniqueEndpointHandles, Idle
<1> QED
  BY <1>1 DEF GInv, Knowledge

\* Every call.
LEMMA CallGInv ==
  ASSUME GInv, HandlesCall
  PROVE  GInv'
<1>0. created \subseteq Entities /\ update_queued \in BOOLEAN
  BY DEF GInv, IInv, TypeOK
<1>1. ASSUME NEW name \in Names, NEW namespace \in Namespaces \cup {EmptyNamespace},
             register_local_node_fails(name, namespace)
      PROVE  GInv'
  <2>1. CNamespace(namespace) \in Namespaces \cup {NullNamespace}
    BY DEF CNamespace
  <2>2. RegisterLocalNodeFails(name, CNamespace(namespace))
    BY <1>1 DEF register_local_node_fails
  <2>3. IInv'
    BY <2>1, <2>2, NodeCallIInv DEF NodeCall, GInv
  <2> QED
    BY <1>1, <2>2, <2>3 DEF register_local_node_fails, RegisterLocalNodeFails, GInv, Knowledge
<1>2. ASSUME NEW e \in Entities, DeleteEntity(e)
      PROVE  GInv'
  <2>1. \A endp \in granted :
          {endp.dds_reader, endp.dds_writer} \subseteq (created \ {e}) \cup {NoEntity}
    BY <1>2 DEF DeleteEntity, GInv, Knowledge
  <2> QED
    BY <1>0, <1>2, <2>1, NodesStay DEF DeleteEntity
<1>3. ASSUME NEW e \in Entities, CreateEntity(e), UNCHANGED <<granted_nodes, granted>>
      PROVE  GInv'
  <2>1. \A endp \in granted :
          {endp.dds_reader, endp.dds_writer} \subseteq (created \cup {e}) \cup {NoEntity}
    BY DEF GInv, Knowledge
  <2> QED
    BY <1>0, <1>3, <2>1, NodesStay DEF CreateEntity
<1> QED
  BY <1>1, <1>2, <1>3, RegisterNodeGInv, UnregisterNodeGInv, RegisterEndpointGInv,
    RegisterEndpointFailsGInv, UnregisterEndpointGInv DEF HandlesCall

\* The update thread does not change what the application knows.
LEMMA UpdateGInv ==
  ASSUME GInv, UpdateStep
  PROVE  GInv'
<1>1. UNCHANGED <<nodes, node_handle_next, created, inspection, drawn,
                  granted_nodes, granted>>
  BY DEF UpdateStep, Gather, GatherFails, Convert, ConvertFails, Publish, PublishFails,
    handleVars, vars
<1>2. update_queued' \in BOOLEAN
  BY DEF UpdateStep, Gather, GatherFails, Convert, ConvertFails, Publish, PublishFails,
    handleVars, vars, GInv, IInv, TypeOK
<1>3. /\ created' \subseteq Entities
      /\ \A endp \in granted :
           {endp.dds_reader, endp.dds_writer} \subseteq created' \cup {NoEntity}
  BY <1>1 DEF GInv, IInv, TypeOK, Knowledge
<1> QED
  BY <1>1, <1>2, <1>3, NodesStay

\* What the application does not see keeps the invariant.
LEMMA SameHandlesGInv == GInv /\ UNCHANGED handleVars => GInv'
  BY NodesStay DEF handleVars, vars, GInv, IInv, TypeOK, Knowledge

LEMMA StepGInv == GInv /\ [SampleNext]_graphVars => GInv'
<1> SUFFICES ASSUME GInv, [SampleNext]_graphVars PROVE GInv'
  OBVIOUS
<1>1. CASE HandlesCall
  BY <1>1, CallGInv
<1>2. CASE UpdateStep
  BY <1>2, UpdateGInv
<1>3. CASE UNCHANGED graphVars
  BY <1>3, SameHandlesGInv DEF graphVars
<1> QED
  BY <1>1, <1>2, <1>3 DEF SampleNext

LEMMA InitHandlesGInv == HandlesInit => GInv
<1> SUFFICES ASSUME HandlesInit PROVE GInv
  OBVIOUS
<1>1. Init /\ granted_nodes = {} /\ granted = {}
  BY DEF HandlesInit
<1>2. IInv /\ DOMAIN nodes = {}
  BY <1>1, InitIInv, EmptySeq DEF Init
<1> QED
  BY <1>1, <1>2 DEF GInv, Knowledge

LEMMA InitGInv == SampleInit => GInv
  BY InitHandlesGInv DEF SampleInit

-----------------------------------------------------------------------------
(* What the invariant says. *)

\* The node getters.
LEMMA NodesAnswered ==
  ASSUME GInv
  PROVE  NodeGettersAnswer
<1>0. granted_nodes = {KnownNode(nodes[i]) : i \in DOMAIN nodes}
  BY DEF GInv, Knowledge
<1>1. ASSUME NEW known \in granted_nodes
      PROVE  /\ get_node_participant(known.handle) = known.participant
             /\ get_node_name(known.handle) = <<known.name, known.namespace>>
  <2>1. PICK i \in DOMAIN nodes : known = KnownNode(nodes[i])
    BY <1>0
  <2>2. /\ known.handle = nodes[i].handle /\ known.name = nodes[i].node_name
        /\ known.namespace = nodes[i].node_namespace
        /\ known.participant = nodes[i].dds_participant
    BY <2>1 DEF KnownNode
  <2>3. NodesAt(known.handle) = {i} /\ NodeAt(known.handle) = nodes[i]
    BY <2>2, NodeFound
  <2>4. {i} # {}
    OBVIOUS
  <2> QED
    BY <2>2, <2>3, <2>4 DEF get_node_participant, get_node_name
<1>2. ASSUME NEW handle, \A known \in granted_nodes : known.handle # handle
      PROVE  /\ get_node_participant(handle) = NoParticipant
             /\ get_node_name(handle) = <<>>
  <2>1. \A i \in DOMAIN nodes : nodes[i].handle # handle
    <3>1. \A i \in DOMAIN nodes : KnownNode(nodes[i]).handle = nodes[i].handle
      BY DEF KnownNode
    <3> QED
      BY <1>0, <1>2, <3>1
  <2>2. NodesAt(handle) = {}
    BY <2>1 DEF NodesAt
  <2> QED
    BY <2>2 DEF get_node_participant, get_node_name
<1> QED
  BY <1>1, <1>2 DEF NodeGettersAnswer

\* The endpoint getters.
LEMMA EndpointsAnswered ==
  ASSUME GInv
  PROVE  EndpointGettersAnswer
<1>0. granted = UNION {EndpointsOf(nodes[i]) : i \in DOMAIN nodes}
  BY DEF GInv, Knowledge
<1> SUFFICES ASSUME NEW node_handle \in Handles, NEW endp_handle \in Handles
             PROVE  LET answer ==
                          [node |-> node_handle, handle |-> endp_handle,
                           endp_type |-> EndpointAt(node_handle, endp_handle).endp_type,
                           dds_reader |-> EndpointAt(node_handle, endp_handle).dds_reader,
                           dds_writer |-> EndpointAt(node_handle, endp_handle).dds_writer]
                        known == {endp \in granted :
                                    endp.node = node_handle /\ endp.handle = endp_handle}
                    IN  IF known = {} THEN answer.endp_type = "unknown" ELSE known = {answer}
  BY DEF EndpointGettersAnswer, get_endpoint_type, get_endpoint_reader, get_endpoint_writer
<1> DEFINE found == EndpointAt(node_handle, endp_handle)
           known == {endp \in granted :
                       endp.node = node_handle /\ endp.handle = endp_handle}
<1>1. \A endp \in granted :
        \E i \in DOMAIN nodes : \E k \in DOMAIN nodes[i].endpoints :
          /\ endp = KnownEndpoint(nodes[i], nodes[i].endpoints[k])
          /\ endp.node = nodes[i].handle
          /\ endp.handle = nodes[i].endpoints[k].handle
  BY <1>0 DEF EndpointsOf, KnownEndpoint
<1>2. ASSUME NEW i \in DOMAIN nodes, NEW k \in DOMAIN nodes[i].endpoints,
             nodes[i].handle = node_handle, nodes[i].endpoints[k].handle = endp_handle
      PROVE  /\ found = nodes[i].endpoints[k]
             /\ known = {KnownEndpoint(nodes[i], nodes[i].endpoints[k])}
  <2>1. /\ nodes[i] \in Node /\ Conforming(nodes[i]) /\ DistinctEndpoints(nodes[i])
        /\ NodesAt(node_handle) = {i} /\ NodeAt(node_handle) = nodes[i]
    BY <1>2, NodeFound
  <2>2. EndpointsAt(nodes[i], endp_handle) = {k}
        /\ LowestOf(EndpointsAt(nodes[i], endp_handle)) = k
    BY <1>2, <2>1, EndpointFound
  <2>3. {i} # {} /\ {k} # {}
    OBVIOUS
  <2>4. found = nodes[i].endpoints[k]
    BY <2>1, <2>2, <2>3 DEF EndpointAt
  <2>5. KnownEndpoint(nodes[i], nodes[i].endpoints[k]) \in known
    BY <1>0, <1>2 DEF EndpointsOf, KnownEndpoint
  <2>6. ASSUME NEW endp \in known
        PROVE  endp = KnownEndpoint(nodes[i], nodes[i].endpoints[k])
    <3>1. PICK j \in DOMAIN nodes : \E l \in DOMAIN nodes[j].endpoints :
            /\ endp = KnownEndpoint(nodes[j], nodes[j].endpoints[l])
            /\ endp.node = nodes[j].handle
            /\ endp.handle = nodes[j].endpoints[l].handle
      BY <1>1
    <3>2. PICK l \in DOMAIN nodes[j].endpoints :
            /\ endp = KnownEndpoint(nodes[j], nodes[j].endpoints[l])
            /\ endp.node = nodes[j].handle
            /\ endp.handle = nodes[j].endpoints[l].handle
      BY <3>1
    <3>3. j \in NodesAt(node_handle)
      BY <3>2 DEF NodesAt
    <3>4. j = i
      BY <2>1, <3>3
    <3>5. l \in EndpointsAt(nodes[i], endp_handle)
      BY <3>2, <3>4 DEF EndpointsAt
    <3> QED
      BY <2>2, <3>2, <3>4, <3>5
  <2> QED
    BY <2>4, <2>5, <2>6
<1>3. CASE \E i \in DOMAIN nodes : \E k \in DOMAIN nodes[i].endpoints :
             nodes[i].handle = node_handle /\ nodes[i].endpoints[k].handle = endp_handle
  <2>1. PICK i \in DOMAIN nodes : \E k \in DOMAIN nodes[i].endpoints :
          nodes[i].handle = node_handle /\ nodes[i].endpoints[k].handle = endp_handle
    BY <1>3
  <2>2. PICK k \in DOMAIN nodes[i].endpoints :
          nodes[i].handle = node_handle /\ nodes[i].endpoints[k].handle = endp_handle
    BY <2>1
  <2>3. /\ found = nodes[i].endpoints[k]
        /\ known = {KnownEndpoint(nodes[i], nodes[i].endpoints[k])}
    BY <1>2, <2>2
  <2>4. KnownEndpoint(nodes[i], nodes[i].endpoints[k]) =
          [node |-> node_handle, handle |-> endp_handle, endp_type |-> found.endp_type,
           dds_reader |-> found.dds_reader, dds_writer |-> found.dds_writer]
    BY <2>2, <2>3 DEF KnownEndpoint
  <2> QED
    BY <2>3, <2>4
<1>4. CASE ~(\E i \in DOMAIN nodes : \E k \in DOMAIN nodes[i].endpoints :
               nodes[i].handle = node_handle /\ nodes[i].endpoints[k].handle = endp_handle)
  <2>1. known = {}
    BY <1>1, <1>4
  <2>2. found = NoEndpoint
    <3>1. CASE NodesAt(node_handle) = {}
      BY <3>1 DEF EndpointAt
    <3>2. CASE NodesAt(node_handle) # {}
      <4>1. PICK i \in DOMAIN nodes : nodes[i].handle = node_handle
        BY <3>2 DEF NodesAt
      <4>2. NodeAt(node_handle) = nodes[i]
        BY <4>1, NodeFound
      <4>3. EndpointsAt(nodes[i], endp_handle) = {}
        BY <1>4, <4>1 DEF EndpointsAt
      <4> QED
        BY <3>2, <4>2, <4>3 DEF EndpointAt
    <3> QED
      BY <3>1, <3>2
  <2> QED
    BY <2>1, <2>2 DEF NoEndpoint
<1> QED
  BY <1>3, <1>4

LEMMA UnregisteredIsKnown ==
  ASSUME GInv
  PROVE  SameEndpointUnregistered
<1> SUFFICES ASSUME NEW endp \in granted
             PROVE  LET node == NodeAt(endp.node)
                        holding == Holding(node, endp.dds_reader, endp.dds_writer)
                    IN  /\ holding # {}
                        /\ node.endpoints[LowestOf(holding)].handle = endp.handle
  BY DEF SameEndpointUnregistered
<1>1. PICK i \in DOMAIN nodes : \E k \in DOMAIN nodes[i].endpoints :
        /\ endp = KnownEndpoint(nodes[i], nodes[i].endpoints[k])
        /\ NodeAt(endp.node) = nodes[i]
        /\ Holding(nodes[i], endp.dds_reader, endp.dds_writer) = {k}
        /\ LowestOf(Holding(nodes[i], endp.dds_reader, endp.dds_writer)) = k
  BY KnownIsOn
<1>2. PICK k \in DOMAIN nodes[i].endpoints :
        /\ endp = KnownEndpoint(nodes[i], nodes[i].endpoints[k])
        /\ NodeAt(endp.node) = nodes[i]
        /\ Holding(nodes[i], endp.dds_reader, endp.dds_writer) = {k}
        /\ LowestOf(Holding(nodes[i], endp.dds_reader, endp.dds_writer)) = k
  BY <1>1
<1>3. endp.handle = nodes[i].endpoints[k].handle
  BY <1>2 DEF KnownEndpoint
<1> QED
  BY <1>2, <1>3

LEMMA InvariantImplies ==
  GInv => /\ CountersMatch /\ RegisteredExist
          /\ NodeGettersAnswer /\ EndpointGettersAnswer /\ SameEndpointUnregistered
<1> SUFFICES ASSUME GInv
             PROVE  CountersMatch /\ RegisteredExist
  BY NodesAnswered, EndpointsAnswered, UnregisteredIsKnown
<1>1. \A n \in DOMAIN nodes : Conforming(nodes[n])
  BY DEF GInv
<1>2. RegisteredExist
  <2> SUFFICES ASSUME NEW n \in DOMAIN nodes, NEW k \in DOMAIN nodes[n].endpoints
               PROVE  {nodes[n].endpoints[k].dds_reader, nodes[n].endpoints[k].dds_writer}
                        \subseteq created \cup {NoEntity}
    BY DEF RegisteredExist
  <2> DEFINE endp == KnownEndpoint(nodes[n], nodes[n].endpoints[k])
  <2>1. endp \in granted
    BY DEF GInv, Knowledge, EndpointsOf
  <2>2. /\ endp.dds_reader = nodes[n].endpoints[k].dds_reader
        /\ endp.dds_writer = nodes[n].endpoints[k].dds_writer
    BY DEF KnownEndpoint
  <2> HIDE DEF endp
  <2> QED
    BY <2>1, <2>2 DEF GInv, Knowledge
<1> QED
  BY <1>1, <1>2 DEF Conforming, CountersMatch

-----------------------------------------------------------------------------
(* Theorems. *)

\* The inductive invariant: the part of Registry; conforming, distinct and
\* counted endpoints on every node; and an application that knows exactly what
\* is on the registry.  It holds with the update thread's rounds of publication
\* (SampleSpec) and without (HandlesSpec).
THEOREM CallsKeepInvariant == (HandlesSpec => []GInv) /\ (SampleSpec => []GInv)
<1>1. SampleInit => GInv
  BY InitGInv
<1>2. GInv /\ [SampleNext]_graphVars => GInv'
  BY StepGInv
<1>3. HandlesInit => GInv
  BY InitHandlesGInv
<1>4. GInv /\ [HandlesCall]_handleVars => GInv'
  BY CallGInv, SameHandlesGInv
<1> QED
  BY <1>1, <1>2, <1>3, <1>4, PTL DEF SampleSpec, HandlesSpec

\* readers_len and writers_len count the readers and the writers of a node, for
\* an application that registers and unregisters endpoints by calls and neither
\* inspects nor polls, whatever fails.
THEOREM CountersCount ==
  (HandlesSpec => []CountersMatch) /\ (SampleSpec => []CountersMatch)
  BY CallsKeepInvariant, InvariantImplies, PTL

\* The update thread never asks a DDS endpoint for its handle that the
\* application has deleted, if the application unregisters it first and does not
\* inspect.
THEOREM NothingDeletedIsRegistered ==
  (HandlesSpec => []RegisteredExist) /\ (SampleSpec => []RegisteredExist)
  BY CallsKeepInvariant, InvariantImplies, PTL

\* get_node_participant and get_node_name answer what was registered under a
\* handle, however often handles have wrapped around.
THEOREM NodeGettersCorrect ==
  (HandlesSpec => []NodeGettersAnswer) /\ (SampleSpec => []NodeGettersAnswer)
  BY CallsKeepInvariant, InvariantImplies, PTL

\* get_endpoint_reader, _writer and _type answer the endpoint that a call has
\* registered under a pair of handles, and nothing to any other pair, as long as
\* no inspection registers endpoints or attaches writers.
THEOREM EndpointGettersCorrect ==
  (HandlesSpec => []EndpointGettersAnswer) /\ (SampleSpec => []EndpointGettersAnswer)
  BY CallsKeepInvariant, InvariantImplies, PTL

\* Unregistering by DDS endpoints takes off the endpoint that a call registered
\* with them, and no other that shares one of them, while nothing is inspected.
THEOREM RightEndpointUnregistered ==
  (HandlesSpec => []SameEndpointUnregistered)
  /\ (SampleSpec => []SameEndpointUnregistered)
  BY CallsKeepInvariant, InvariantImplies, PTL
=============================================================================
