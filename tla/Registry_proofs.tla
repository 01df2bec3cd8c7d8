--------------------------- MODULE Registry_proofs ---------------------------
(***************************************************************************)
(* Machine-checked proofs about Registry, for every set of names, DDS      *)
(* endpoints and participants and every largest handle.                    *)
(***************************************************************************)
EXTENDS Registry, WellFoundedInduction, SequenceTheorems, FiniteSetTheorems,
  FunctionTheorems, TLAPS

-----------------------------------------------------------------------------
(* Helpers. *)

\* A nonempty set of numbers has a lowest one.
LEMMA LowestIsIn ==
  ASSUME NEW S, S \subseteq Nat, S # {}
  PROVE  LowestOf(S) \in S /\ \A y \in S : LowestOf(S) <= y
<1>1. PICK x \in S : \A y \in S : <<y, x>> \notin OpToRel(<, Nat)
  BY WFMin, NatLessThanWellFounded
<1>2. \A y \in Nat : y < x => <<y, x>> \in OpToRel(<, Nat)
  BY Zenon DEF OpToRel
<1>3. \A y \in S : ~(y < x)
  BY <1>1, <1>2
<1>4. \A y \in S : x <= y
  BY <1>3
<1> QED
  BY <1>4 DEF LowestOf

\* A handle handed out is a handle, and is not in use.
LEMMA HandleIsFree ==
  ASSUME NEW next \in Counters, NEW used \in SUBSET Handles, used # Handles
  PROVE  /\ NextHandle(next, used).handle \in Handles \ used
         /\ NextHandle(next, used).next \in Counters
<1> DEFINE ahead == (next .. MaxHandle) \ used
           choice == IF ahead # {} THEN ahead ELSE Handles \ used
<1>1. MaxHandle \in Nat
  BY RegistryAssumption
<1>2. choice \subseteq Handles \ used /\ choice # {} /\ Handles \subseteq Nat
  <2>1. next .. MaxHandle \subseteq Handles /\ Handles \subseteq Nat
    BY <1>1 DEF Handles, Counters
  <2>2. Handles \ used # {}
    OBVIOUS
  <2> QED
    BY <2>1, <2>2
<1>3. LowestOf(choice) \in Handles \ used
  <2>1. choice \subseteq Nat
    BY <1>2
  <2>2. LowestOf(choice) \in choice
    BY <1>2, <2>1, LowestIsIn
  <2> QED
    BY <1>2, <2>2
<1> QED
  BY <1>1, <1>3 DEF NextHandle, Handles, Counters

\* An element of a sequence without its i-th element was one of its elements.
LEMMA RemoveAtElement ==
  ASSUME NEW S, NEW s \in Seq(S), NEW i \in DOMAIN s
  PROVE  /\ RemoveAt(s, i) \in Seq(S)
         /\ Len(RemoveAt(s, i)) = Len(s) - 1
         /\ \A j \in DOMAIN RemoveAt(s, i) :
              RemoveAt(s, i)[j] = s[IF j < i THEN j ELSE j + 1]
<1> DEFINE front == SubSeq(s, 1, i - 1)
           rest == SubSeq(s, i + 1, Len(s))
<1>1. Len(s) \in Nat /\ i \in 1 .. Len(s)
  BY LenProperties
<1>2. /\ front \in Seq(S) /\ Len(front) = i - 1
      /\ \A j \in 1 .. i - 1 : front[j] = s[j]
  BY <1>1, SubSeqProperties
<1>3. /\ rest \in Seq(S) /\ Len(rest) = Len(s) - i
      /\ \A j \in 1 .. Len(s) - i : rest[j] = s[i + j]
  BY <1>1, SubSeqProperties
<1> HIDE DEF front, rest
<1>4. /\ front \o rest \in Seq(S)
      /\ Len(front \o rest) = Len(s) - 1
      /\ \A j \in 1 .. Len(s) - 1 :
           (front \o rest)[j] = IF j <= i - 1 THEN front[j] ELSE rest[j - (i - 1)]
  <2>1. front \in Seq(S) /\ rest \in Seq(S)
    BY <1>2, <1>3
  <2>2. /\ front \o rest \in Seq(S)
        /\ Len(front \o rest) = Len(front) + Len(rest)
        /\ \A j \in 1 .. Len(front) + Len(rest) :
             (front \o rest)[j] = IF j <= Len(front) THEN front[j] ELSE rest[j - Len(front)]
    BY ONLY <2>1, ConcatProperties, Zenon
  <2>3. Len(front) = i - 1 /\ Len(front) + Len(rest) = Len(s) - 1
    BY <1>1, <1>2, <1>3
  <2> QED
    BY <2>2, <2>3, Zenon
<1>5. RemoveAt(s, i) = front \o rest
  BY DEF RemoveAt, front, rest
<1>6. ASSUME NEW j \in 1 .. Len(s) - 1
      PROVE  (front \o rest)[j] = s[IF j < i THEN j ELSE j + 1]
  <2>1. CASE j < i
    <3>1. j \in 1 .. i - 1 /\ j <= i - 1
      BY <1>1, <2>1
    <3> QED
      BY <1>2, <1>4, <2>1, <3>1
  <2>2. CASE ~(j < i)
    <3>1. /\ ~(j <= i - 1)
          /\ j - (i - 1) \in 1 .. Len(s) - i
          /\ i + (j - (i - 1)) = j + 1
      BY <1>1, <2>2
    <3> QED
      BY <1>3, <1>4, <2>2, <3>1
  <2> QED
    BY <2>1, <2>2
<1>7. DOMAIN (front \o rest) = 1 .. Len(s) - 1
  BY <1>4, LenProperties
<1> HIDE DEF RemoveAt
<1> QED
  BY <1>4, <1>5, <1>6, <1>7

-----------------------------------------------------------------------------
(* The invariant. *)

DistinctEndpoints(node) ==
  \A i, j \in DOMAIN node.endpoints :
    node.endpoints[i].handle = node.endpoints[j].handle => i = j

Args == Entities \cup {NoEntity}

\* Counters stay in their range.
LEMMA PlusType ==
  ASSUME NEW size \in Sizes, NEW d \in Nat
  PROVE  Plus(size, d) \in Sizes
<1>1. MaxSize \in Nat
  BY RegistryAssumption
<1>2. size + d \in Int /\ MaxSize + 1 \in Int /\ MaxSize + 1 > 0
  BY <1>1 DEF Sizes
<1>3. ASSUME NEW a \in Int, NEW b \in Int, b > 0
      PROVE  a % b \in 0 .. b - 1
  BY <1>3
<1> QED
  BY <1>1, <1>2, <1>3 DEF Plus, Sizes

\* The handles of a list of nodes or endpoints.
LEMMA HandlesInType ==
  ASSUME NEW S, NEW list \in Seq(S), \A x \in S : x.handle \in Handles
  PROVE  HandlesIn(list) \in SUBSET Handles
<1>1. ASSUME NEW i \in DOMAIN list
      PROVE  list[i] \in S
  BY LenProperties, ElementOfSeq
<1> QED
  BY <1>1 DEF HandlesIn

\* The handles of the endpoints of a node.
LEMMA EndpointHandles ==
  ASSUME NEW node \in Node
  PROVE  HandlesIn(node.endpoints) \in SUBSET Handles
<1>1. node.endpoints \in Seq(Endpoint)
  BY DEF Node
<1>2. \A x \in Endpoint : x.handle \in Handles
  BY DEF Endpoint
<1> QED
  BY <1>1, <1>2, HandlesInType

\* register_local_endpoint yields a node whose endpoints have distinct handles.
LEMMA WithEndpointType ==
  ASSUME NEW node \in Node, NEW type \in Types, NEW reader \in Args, NEW writer \in Args,
         HandlesIn(node.endpoints) # Handles, DistinctEndpoints(node)
  PROVE  LET new == WithEndpoint(node, type, reader, writer)
         IN  /\ new \in Node
             /\ DistinctEndpoints(new)
             /\ Len(new.endpoints) = Len(node.endpoints) + 1
             /\ new.endpoints[Len(new.endpoints)].handle \in Handles
             /\ new.handle = node.handle
             /\ new.node_name = node.node_name
             /\ new.node_namespace = node.node_namespace
<1> DEFINE fresh == NextHandle(node.endp_handle_next, HandlesIn(node.endpoints))
           endp == [handle |-> fresh.handle, endp_type |-> type,
                    dds_reader |-> reader, dds_writer |-> writer]
           list == Append(node.endpoints, endp)
           new == WithEndpoint(node, type, reader, writer)
           readers == IF reader # NoEntity THEN Plus(node.readers_len, 1)
                                           ELSE node.readers_len
           writers == IF writer # NoEntity THEN Plus(node.writers_len, 1)
                                           ELSE node.writers_len
<1>1. node.endpoints \in Seq(Endpoint) /\ node.endp_handle_next \in Counters
  BY DEF Node
<1>2. HandlesIn(node.endpoints) \in SUBSET Handles
  BY EndpointHandles
<1>3. fresh.handle \in Handles \ HandlesIn(node.endpoints) /\ fresh.next \in Counters
  BY <1>1, <1>2, HandleIsFree
<1> HIDE DEF fresh
<1>4. endp \in Endpoint
  BY <1>3 DEF Endpoint, Args
<1>5. readers \in Sizes /\ writers \in Sizes
  BY PlusType DEF Node
<1>6. new = [node EXCEPT !.endpoints = list, !.endp_handle_next = fresh.next,
                         !.readers_len = readers, !.writers_len = writers]
  BY DEF WithEndpoint, fresh
<1>7. /\ list \in Seq(Endpoint)
      /\ Len(list) = Len(node.endpoints) + 1
      /\ \A i \in 1 .. Len(node.endpoints) : list[i] = node.endpoints[i]
      /\ list[Len(node.endpoints) + 1] = endp
  BY <1>1, <1>4, AppendProperties
<1> HIDE DEF list, readers, writers, new
<1>8. new \in Node /\ new.endpoints = list
  BY <1>3, <1>5, <1>6, <1>7 DEF Node
<1>9. \A i, j \in DOMAIN list : list[i].handle = list[j].handle => i = j
  <2>1. \A i \in 1 .. Len(node.endpoints) : node.endpoints[i].handle # endp.handle
    BY <1>1, <1>3, LenProperties DEF HandlesIn
  <2>2. DOMAIN list = 1 .. Len(node.endpoints) + 1
        /\ DOMAIN node.endpoints = 1 .. Len(node.endpoints)
        /\ Len(node.endpoints) \in Nat
    BY <1>1, <1>7, LenProperties
  <2> QED
    BY <1>7, <2>1, <2>2 DEF DistinctEndpoints
<1>10. /\ new.handle = node.handle
       /\ new.node_name = node.node_name
       /\ new.node_namespace = node.node_namespace
  BY <1>6 DEF Node
<1>11. endp.handle \in Handles
  BY <1>3
<1> QED
  BY <1>7, <1>8, <1>9, <1>10, <1>11 DEF DistinctEndpoints, new

\* finalize_endpoint too.
LEMMA WithoutEndpointType ==
  ASSUME NEW node \in Node, NEW k \in DOMAIN node.endpoints, DistinctEndpoints(node)
  PROVE  LET new == WithoutEndpoint(node, k)
         IN  /\ new \in Node
             /\ DistinctEndpoints(new)
             /\ new.handle = node.handle
             /\ new.node_name = node.node_name
             /\ new.node_namespace = node.node_namespace
<1> DEFINE endp == node.endpoints[k]
           list == RemoveAt(node.endpoints, k)
           readers == IF endp.dds_reader # NoEntity
                      THEN Plus(node.readers_len, MaxSize) ELSE node.readers_len
           writers == IF endp.dds_writer # NoEntity
                      THEN Plus(node.writers_len, MaxSize) ELSE node.writers_len
           new == WithoutEndpoint(node, k)
<1>1. node.endpoints \in Seq(Endpoint)
  BY DEF Node
<1>2. /\ list \in Seq(Endpoint)
      /\ Len(list) = Len(node.endpoints) - 1
      /\ \A j \in DOMAIN list :
           list[j] = node.endpoints[IF j < k THEN j ELSE j + 1]
  BY <1>1, RemoveAtElement
<1>3. new = [node EXCEPT !.endpoints = list, !.readers_len = readers,
                         !.writers_len = writers]
  BY DEF WithoutEndpoint
<1>4. readers \in Sizes /\ writers \in Sizes
  BY PlusType, RegistryAssumption DEF Node
<1> HIDE DEF list, readers, writers, new
<1>5. new \in Node /\ new.endpoints = list
  BY <1>2, <1>3, <1>4 DEF Node
<1>6. \A i, j \in DOMAIN list : list[i].handle = list[j].handle => i = j
  <2>1. /\ DOMAIN list = 1 .. Len(node.endpoints) - 1
        /\ DOMAIN node.endpoints = 1 .. Len(node.endpoints)
        /\ Len(node.endpoints) \in Nat
    BY <1>1, <1>2, LenProperties
  <2>2. ASSUME NEW i \in DOMAIN list, NEW j \in DOMAIN list,
               list[i].handle = list[j].handle
        PROVE  i = j
    <3> DEFINE place(x) == IF x < k THEN x ELSE x + 1
    <3>1. place(i) \in DOMAIN node.endpoints /\ place(j) \in DOMAIN node.endpoints
      BY <2>1
    <3>2. list[i] = node.endpoints[place(i)] /\ list[j] = node.endpoints[place(j)]
      BY <1>2
    <3>3. place(i) = place(j)
      <4> HIDE DEF place
      <4> QED
        BY <2>2, <3>1, <3>2 DEF DistinctEndpoints
    <3> QED
      BY <2>1, <3>3
  <2> QED
    BY <2>2
<1>7. /\ new.handle = node.handle
      /\ new.node_name = node.node_name
      /\ new.node_namespace = node.node_namespace
  BY <1>3 DEF Node
<1> QED
  BY <1>5, <1>6, <1>7 DEF DistinctEndpoints, new

\* A failed registration only draws a handle.
LEMMA WithHandleDrawnType ==
  ASSUME NEW node \in Node, HandlesIn(node.endpoints) # Handles
  PROVE  /\ WithHandleDrawn(node) \in Node
         /\ WithHandleDrawn(node) =
              [node EXCEPT !.endp_handle_next = WithHandleDrawn(node).endp_handle_next]
<1> DEFINE next == NextHandle(node.endp_handle_next, HandlesIn(node.endpoints)).next
<1>1. HandlesIn(node.endpoints) \in SUBSET Handles /\ node.endp_handle_next \in Counters
  BY EndpointHandles DEF Node
<1>2. next \in Counters
  BY <1>1, HandleIsFree
<1>3. WithHandleDrawn(node) = [node EXCEPT !.endp_handle_next = next]
  BY DEF WithHandleDrawn
<1> HIDE DEF next
<1> QED
  BY <1>2, <1>3 DEF Node

IInv == TypeOK /\ UniqueNodeHandles /\ UniqueNodeNames /\ UniqueEndpointHandles

\* The part of the invariant about the list of nodes.
NodesInv ==
  nodes \in Seq(Node) /\ UniqueNodeHandles /\ UniqueNodeNames /\ UniqueEndpointHandles

\* What the invariant says of the nodes one by one.
LEMMA NodesFacts ==
  ASSUME NodesInv
  PROVE  /\ Len(nodes) \in Nat
         /\ DOMAIN nodes = 1 .. Len(nodes)
         /\ \A i \in DOMAIN nodes : nodes[i] \in Node /\ DistinctEndpoints(nodes[i])
         /\ HandlesIn(nodes) \in SUBSET Handles
<1>1. nodes \in Seq(Node)
  BY DEF NodesInv
<1>2. DOMAIN nodes = 1 .. Len(nodes) /\ Len(nodes) \in Nat
  BY <1>1, LenProperties
<1>3. \A i \in DOMAIN nodes : nodes[i] \in Node
  BY <1>1, <1>2, ElementOfSeq
<1>4. \A i \in DOMAIN nodes : DistinctEndpoints(nodes[i])
  BY DEF NodesInv, UniqueEndpointHandles, DistinctEndpoints
<1>5. HandlesIn(nodes) \in SUBSET Handles
  <2>1. \A x \in Node : x.handle \in Handles
    BY DEF Node
  <2> QED
    BY <1>1, <2>1, HandlesInType
<1> QED
  BY <1>2, <1>3, <1>4, <1>5

\* A node that keeps its handle and name is changed.
LEMMA ReplaceNode ==
  ASSUME NodesInv, NEW i \in DOMAIN nodes, NEW node \in Node,
         DistinctEndpoints(node),
         node.handle = nodes[i].handle,
         node.node_name = nodes[i].node_name,
         node.node_namespace = nodes[i].node_namespace,
         nodes' = [nodes EXCEPT ![i] = node]
  PROVE  NodesInv' /\ DOMAIN nodes' = DOMAIN nodes /\ HandlesIn(nodes') = HandlesIn(nodes)
<1>1. nodes \in Seq(Node) /\ i \in 1 .. Len(nodes)
  BY NodesFacts DEF NodesInv
<1>2. nodes' \in Seq(Node) /\ DOMAIN nodes' = DOMAIN nodes
  BY <1>1, ExceptSeq
<1>3. \A j \in DOMAIN nodes : nodes'[j] = IF j = i THEN node ELSE nodes[j]
  BY <1>1
<1>4. UniqueNodeHandles'
  BY <1>2, <1>3 DEF NodesInv, UniqueNodeHandles
<1>5. UniqueNodeNames'
  BY <1>2, <1>3 DEF NodesInv, UniqueNodeNames
<1>6. UniqueEndpointHandles'
  <2>1. \A j \in DOMAIN nodes' : DistinctEndpoints(nodes'[j])
    BY <1>2, <1>3, NodesFacts
  <2> QED
    BY <2>1 DEF UniqueEndpointHandles, DistinctEndpoints
<1>7. HandlesIn(nodes') = HandlesIn(nodes)
  BY <1>2, <1>3 DEF HandlesIn
<1> QED
  BY <1>2, <1>4, <1>5, <1>6, <1>7 DEF NodesInv

\* A node is taken off the list.
LEMMA DropNode ==
  ASSUME NodesInv, NEW i \in DOMAIN nodes, nodes' = RemoveAt(nodes, i)
  PROVE  NodesInv' /\ HandlesIn(nodes') \subseteq HandlesIn(nodes)
<1> DEFINE place(j) == IF j < i THEN j ELSE j + 1
<1>1. /\ nodes' \in Seq(Node)
      /\ Len(nodes') = Len(nodes) - 1
      /\ \A j \in DOMAIN nodes' : nodes'[j] = nodes[place(j)]
  BY RemoveAtElement DEF NodesInv
<1>2. DOMAIN nodes' = 1 .. Len(nodes) - 1
  BY <1>1, LenProperties
<1>3. i \in 1 .. Len(nodes) /\ DOMAIN nodes = 1 .. Len(nodes) /\ Len(nodes) \in Nat
  BY NodesFacts
<1>4. \A j \in DOMAIN nodes' : place(j) \in DOMAIN nodes
  BY <1>2, <1>3
<1>5. \A j, k \in DOMAIN nodes' : place(j) = place(k) => j = k
  BY <1>2, <1>3
<1> HIDE DEF place
<1>6. UniqueNodeHandles'
  BY <1>1, <1>4, <1>5 DEF NodesInv, UniqueNodeHandles
<1>7. UniqueNodeNames'
  BY <1>1, <1>4, <1>5 DEF NodesInv, UniqueNodeNames
<1>8. UniqueEndpointHandles'
  <2>1. \A j \in DOMAIN nodes' : DistinctEndpoints(nodes'[j])
    BY <1>1, <1>4, NodesFacts
  <2> QED
    BY <2>1 DEF UniqueEndpointHandles, DistinctEndpoints
<1>9. HandlesIn(nodes') \subseteq HandlesIn(nodes)
  BY <1>1, <1>4 DEF HandlesIn
<1> QED
  BY <1>1, <1>6, <1>7, <1>8, <1>9 DEF NodesInv

\* A node with a handle and a name of its own is put at the back.
LEMMA AddNode ==
  ASSUME NodesInv, NEW node \in Node, DistinctEndpoints(node),
         node.handle \notin HandlesIn(nodes),
         \A i \in DOMAIN nodes : ~(/\ nodes[i].node_name = node.node_name
                                   /\ nodes[i].node_namespace = node.node_namespace),
         nodes' = Append(nodes, node)
  PROVE  NodesInv' /\ DOMAIN nodes' = 1 .. Len(nodes) + 1
<1>1. /\ nodes' \in Seq(Node)
      /\ Len(nodes') = Len(nodes) + 1
      /\ \A i \in 1 .. Len(nodes) : nodes'[i] = nodes[i]
      /\ nodes'[Len(nodes) + 1] = node
  BY AppendProperties DEF NodesInv
<1>2. DOMAIN nodes' = 1 .. Len(nodes) + 1
  BY <1>1, LenProperties
<1>3. DOMAIN nodes = 1 .. Len(nodes) /\ Len(nodes) \in Nat
  BY NodesFacts
<1>4. \A i \in DOMAIN nodes : nodes[i].handle # node.handle
  BY DEF HandlesIn
<1>5. UniqueNodeHandles'
  BY <1>1, <1>2, <1>3, <1>4 DEF NodesInv, UniqueNodeHandles
<1>6. UniqueNodeNames'
  BY <1>1, <1>2, <1>3 DEF NodesInv, UniqueNodeNames
<1>7. UniqueEndpointHandles'
  <2>1. \A j \in DOMAIN nodes' : DistinctEndpoints(nodes'[j])
    BY <1>1, <1>2, <1>3, NodesFacts
  <2> QED
    BY <2>1 DEF UniqueEndpointHandles, DistinctEndpoints
<1> QED
  BY <1>1, <1>2, <1>5, <1>6, <1>7 DEF NodesInv

\* detect_endpoint_type returns a type or "unknown".
LEMMA DetectedTypeIn ==
  ASSUME NEW e
  PROVE  DetectedType(e) \in Types \cup {"unknown"}
  BY DEF DetectedType, Types

\* An inspection begins with DDS endpoints of the participant only.
LEMMA BeginType ==
  ASSUME created \subseteq Entities, NEW caller \in Callers, NEW at \in Nat, NEW dp
  PROVE  Begin(caller, at, dp) \in Inspection /\ Begin(caller, at, dp).at = at
<1>1. EntitiesOn(dp) \cap Writers \in SUBSET Entities
  BY DEF EntitiesOn
<1> QED
  BY <1>1 DEF Begin, Inspection, Phases

\* The next node of a poll is on the list.
LEMMA FollowingType ==
  ASSUME NodesInv, created \subseteq Entities, NEW caller \in Callers, NEW at \in Nat
  PROVE  /\ Following(caller, at) \in Inspection
         /\ \/ Following(caller, at).phase = "none"
            \/ caller = "poll" /\ Following(caller, at).at \in DOMAIN nodes
<1>1. Len(nodes) \in Nat /\ DOMAIN nodes = 1 .. Len(nodes)
  BY NodesFacts
<1>2. NoInspection \in Inspection /\ NoInspection.phase = "none"
  BY DEF NoInspection, Inspection, Phases, Callers
<1>3. CASE caller = "poll" /\ at < Len(nodes)
  <2>1. at + 1 \in Nat /\ at + 1 \in DOMAIN nodes
    BY <1>1, <1>3
  <2>2. Following(caller, at) = Begin("poll", at + 1, nodes[at + 1].dds_participant)
    BY <1>3 DEF Following
  <2>3. "poll" \in Callers
    BY DEF Callers
  <2> QED
    BY <1>3, <2>1, <2>2, <2>3, BeginType
<1>4. CASE ~(caller = "poll" /\ at < Len(nodes))
  BY <1>2, <1>4 DEF Following
<1> QED
  BY <1>3, <1>4

\* What the steps that register no node establish.
Kept == IInv' /\ HandlesIn(nodes') \subseteq HandlesIn(nodes)

\* A call changes one node.
LEMMA UpdateNodeInv ==
  ASSUME IInv, Idle, NEW i \in DOMAIN nodes, NEW node \in Node,
         DistinctEndpoints(node),
         node.handle = nodes[i].handle,
         node.node_name = nodes[i].node_name,
         node.node_namespace = nodes[i].node_namespace,
         UpdateNode(i, node)
  PROVE  Kept
<1>1. NodesInv /\ nodes' = [nodes EXCEPT ![i] = node]
  BY DEF IInv, TypeOK, NodesInv, UpdateNode
<1>2. NodesInv' /\ DOMAIN nodes' = DOMAIN nodes
      /\ HandlesIn(nodes') = HandlesIn(nodes)
  BY <1>1, ReplaceNode
<1> QED
  BY <1>2 DEF Kept, IInv, TypeOK, NodesInv, UpdateNode, Idle

\* The first of some places of a list.
LEMMA LowestPlace ==
  ASSUME NEW list, NEW S, list \in Seq(S), NEW places, places \subseteq DOMAIN list, places # {}
  PROVE  LowestOf(places) \in places
<1>1. places \subseteq Nat
  BY LenProperties
<1> QED
  BY <1>1, LowestIsIn

-----------------------------------------------------------------------------
(* Counting the elements of a sequence. *)

Places(list, kind) == {k \in DOMAIN list : list[k] \in kind}

\* There are at most as many places as elements.
LEMMA PlacesBounded ==
  ASSUME NEW S, NEW list \in Seq(S), NEW places \in SUBSET DOMAIN list
  PROVE  /\ IsFiniteSet(places)
         /\ Cardinality(places) \in 0 .. Len(list)
<1>1. DOMAIN list = 1 .. Len(list) /\ Len(list) \in Nat
  BY LenProperties
<1>2. IsFiniteSet(DOMAIN list) /\ Cardinality(DOMAIN list) = Len(list)
  <2>1. /\ IsFiniteSet(1 .. Len(list))
        /\ Cardinality(1 .. Len(list)) = IF 1 > Len(list) THEN 0 ELSE Len(list) - 1 + 1
    BY <1>1, FS_Interval
  <2> QED
    BY <1>1, <2>1
<1>3. IsFiniteSet(places) /\ Cardinality(places) <= Len(list)
  BY <1>2, FS_Subset
<1> QED
  BY <1>1, <1>3, FS_CardinalityType

\* One more element.
LEMMA AppendCount ==
  ASSUME NEW S, NEW list \in Seq(S), NEW x \in S, NEW kind
  PROVE  Cardinality(Places(Append(list, x), kind)) =
           IF x \in kind THEN Cardinality(Places(list, kind)) + 1
                         ELSE Cardinality(Places(list, kind))
<1> DEFINE longer == Append(list, x)
           last == Len(list) + 1
<1>1. DOMAIN list = 1 .. Len(list) /\ Len(list) \in Nat
  BY LenProperties
<1>2. /\ longer \in Seq(S) /\ Len(longer) = last
      /\ \A k \in 1 .. Len(list) : longer[k] = list[k]
      /\ longer[last] = x
  BY AppendProperties
<1>3. DOMAIN longer = 1 .. last
  BY <1>2, LenProperties
<1> HIDE DEF longer
<1>4. Places(longer, kind) = IF x \in kind THEN Places(list, kind) \cup {last}
                                           ELSE Places(list, kind)
  BY <1>1, <1>2, <1>3 DEF Places
<1>5. IsFiniteSet(Places(list, kind)) /\ last \notin Places(list, kind)
  BY <1>1, PlacesBounded DEF Places
<1> QED
  BY <1>4, <1>5, FS_AddElement DEF longer

\* One element less.
LEMMA RemoveCount ==
  ASSUME NEW S, NEW list \in Seq(S), NEW k \in DOMAIN list, NEW kind
  PROVE  Cardinality(Places(RemoveAt(list, k), kind)) =
           IF list[k] \in kind THEN Cardinality(Places(list, kind)) - 1
                               ELSE Cardinality(Places(list, kind))
<1> DEFINE shorter == RemoveAt(list, k)
           place == [j \in Places(shorter, kind) |-> IF j < k THEN j ELSE j + 1]
           others == Places(list, kind) \ {k}
<1>1. DOMAIN list = 1 .. Len(list) /\ Len(list) \in Nat
  BY LenProperties
<1>2. /\ shorter \in Seq(S) /\ Len(shorter) = Len(list) - 1
      /\ \A j \in DOMAIN shorter : shorter[j] = list[IF j < k THEN j ELSE j + 1]
  BY RemoveAtElement
<1>3. DOMAIN shorter = 1 .. Len(list) - 1
  BY <1>2, LenProperties
<1> HIDE DEF shorter
<1>4. \A j \in Places(shorter, kind) : place[j] \in others
  BY <1>1, <1>2, <1>3 DEF Places
<1>5. \A i, j \in Places(shorter, kind) : place[i] = place[j] => i = j
  BY <1>1, <1>3 DEF Places
<1>6. ASSUME NEW i \in others
      PROVE  \E j \in Places(shorter, kind) : place[j] = i
  <2> DEFINE j == IF i < k THEN i ELSE i - 1
  <2>1. i \in 1 .. Len(list) /\ i # k /\ list[i] \in kind
    BY <1>1 DEF Places
  <2>2. j \in 1 .. Len(list) - 1 /\ (IF j < k THEN j ELSE j + 1) = i
    BY <1>1, <2>1
  <2>3. j \in Places(shorter, kind)
    BY <1>2, <1>3, <2>1, <2>2 DEF Places
  <2> QED
    BY <2>2, <2>3
<1>7. place \in Bijection(Places(shorter, kind), others)
  BY <1>4, <1>5, <1>6, Fun_IsBij
<1>8. IsFiniteSet(Places(shorter, kind)) /\ IsFiniteSet(Places(list, kind))
  BY <1>2, PlacesBounded DEF Places
<1>9. Cardinality(others) = Cardinality(Places(shorter, kind))
  BY <1>7, <1>8, FS_Bijection DEF ExistsBijection
<1>10. k \in Places(list, kind) <=> list[k] \in kind
  BY DEF Places
<1> QED
  BY <1>8, <1>9, <1>10, FS_RemoveElement DEF shorter

Reading == {endp \in Endpoint : endp.dds_reader # NoEntity}
Writing == {endp \in Endpoint : endp.dds_writer # NoEntity}

\* The places that WithReader and WithWriter stand for.
LEMMA CountedPlaces ==
  ASSUME NEW node, node.endpoints \in Seq(Endpoint)
  PROVE  /\ WithReader(node) = Places(node.endpoints, Reading)
         /\ WithWriter(node) = Places(node.endpoints, Writing)
         /\ Cardinality(WithReader(node)) \in 0 .. Len(node.endpoints)
         /\ Cardinality(WithWriter(node)) \in 0 .. Len(node.endpoints)
<1>1. \A k \in DOMAIN node.endpoints : node.endpoints[k] \in Endpoint
  BY LenProperties, ElementOfSeq
<1>2. /\ WithReader(node) = Places(node.endpoints, Reading)
      /\ WithWriter(node) = Places(node.endpoints, Writing)
  BY <1>1 DEF WithReader, WithWriter, Places, Reading, Writing
<1>3. WithReader(node) \in SUBSET DOMAIN node.endpoints
      /\ WithWriter(node) \in SUBSET DOMAIN node.endpoints
  BY DEF WithReader, WithWriter
<1> QED
  BY <1>2, <1>3, PlacesBounded

-----------------------------------------------------------------------------
(* The counters of a node follow what they count. *)

ReadersInStep(old, new) ==
  InStep(old.readers_len, new.readers_len,
         Cardinality(WithReader(old)), Cardinality(WithReader(new)))

WritersInStep(old, new) ==
  InStep(old.writers_len, new.writers_len,
         Cardinality(WithWriter(old)), Cardinality(WithWriter(new)))

\* Nothing is counted anew.
LEMMA SameInStep ==
  ASSUME NEW old, NEW new, new.endpoints = old.endpoints,
         new.readers_len = old.readers_len, new.writers_len = old.writers_len
  PROVE  ReadersInStep(old, new) /\ WritersInStep(old, new)
BY DEF ReadersInStep, WritersInStep, InStep, WithReader, WithWriter

\* register_local_endpoint.
LEMMA WithEndpointInStep ==
  ASSUME NEW node \in Node, HandlesIn(node.endpoints) # Handles,
         NEW type \in Types, NEW reader \in Args, NEW writer \in Args
  PROVE  LET new == WithEndpoint(node, type, reader, writer)
         IN  ReadersInStep(node, new) /\ WritersInStep(node, new)
<1> DEFINE fresh == NextHandle(node.endp_handle_next, HandlesIn(node.endpoints))
           endp == [handle |-> fresh.handle, endp_type |-> type,
                    dds_reader |-> reader, dds_writer |-> writer]
           list == Append(node.endpoints, endp)
           new == WithEndpoint(node, type, reader, writer)
<1>1. node.endpoints \in Seq(Endpoint) /\ node.endp_handle_next \in Counters
  BY DEF Node
<1>2. fresh.handle \in Handles
  BY <1>1, EndpointHandles, HandleIsFree
<1>3. /\ new.endpoints = list
      /\ new.readers_len = IF reader # NoEntity THEN Plus(node.readers_len, 1)
                                               ELSE node.readers_len
      /\ new.writers_len = IF writer # NoEntity THEN Plus(node.writers_len, 1)
                                               ELSE node.writers_len
  BY DEF WithEndpoint, Node
<1> HIDE DEF fresh, new
<1>4. endp \in Endpoint /\ endp.dds_reader = reader /\ endp.dds_writer = writer
  BY <1>2 DEF Endpoint, Args
<1> HIDE DEF endp
<1>5. list \in Seq(Endpoint)
  BY <1>1, <1>4, AppendProperties
<1>6. /\ Cardinality(Places(list, Reading)) =
           IF endp \in Reading THEN Cardinality(Places(node.endpoints, Reading)) + 1
                               ELSE Cardinality(Places(node.endpoints, Reading))
      /\ Cardinality(Places(list, Writing)) =
           IF endp \in Writing THEN Cardinality(Places(node.endpoints, Writing)) + 1
                               ELSE Cardinality(Places(node.endpoints, Writing))
  BY <1>1, <1>4, AppendCount
<1>7. (endp \in Reading <=> reader # NoEntity) /\ (endp \in Writing <=> writer # NoEntity)
  BY <1>4 DEF Reading, Writing
<1> HIDE DEF list
<1>8. /\ WithReader(new) = Places(list, Reading)
      /\ WithWriter(new) = Places(list, Writing)
      /\ WithReader(node) = Places(node.endpoints, Reading)
      /\ WithWriter(node) = Places(node.endpoints, Writing)
  BY <1>1, <1>3, <1>5, CountedPlaces
<1>9. ReadersInStep(node, new)
  BY <1>3, <1>6, <1>7, <1>8 DEF ReadersInStep, InStep
<1>10. WritersInStep(node, new)
  BY <1>3, <1>6, <1>7, <1>8 DEF WritersInStep, InStep
<1> QED
  BY <1>9, <1>10 DEF new

\* finalize_endpoint.
LEMMA WithoutEndpointInStep ==
  ASSUME NEW node \in Node, NEW k \in DOMAIN node.endpoints
  PROVE  LET new == WithoutEndpoint(node, k)
         IN  ReadersInStep(node, new) /\ WritersInStep(node, new)
<1> DEFINE endp == node.endpoints[k]
           list == RemoveAt(node.endpoints, k)
           new == WithoutEndpoint(node, k)
<1>1. node.endpoints \in Seq(Endpoint)
  BY DEF Node
<1>2. endp \in Endpoint
  BY <1>1, LenProperties, ElementOfSeq
<1>3. list \in Seq(Endpoint)
  BY <1>1, RemoveAtElement
<1>4. /\ new.endpoints = list
      /\ new.readers_len = IF endp.dds_reader # NoEntity
                           THEN Plus(node.readers_len, MaxSize) ELSE node.readers_len
      /\ new.writers_len = IF endp.dds_writer # NoEntity
                           THEN Plus(node.writers_len, MaxSize) ELSE node.writers_len
  BY DEF WithoutEndpoint, Node
<1>5. /\ Cardinality(Places(list, Reading)) =
           IF endp \in Reading THEN Cardinality(Places(node.endpoints, Reading)) - 1
                               ELSE Cardinality(Places(node.endpoints, Reading))
      /\ Cardinality(Places(list, Writing)) =
           IF endp \in Writing THEN Cardinality(Places(node.endpoints, Writing)) - 1
                               ELSE Cardinality(Places(node.endpoints, Writing))
  BY <1>1, RemoveCount
<1>6. (endp \in Reading <=> endp.dds_reader # NoEntity)
      /\ (endp \in Writing <=> endp.dds_writer # NoEntity)
  BY <1>2 DEF Reading, Writing
<1> HIDE DEF list, new
<1>7. /\ WithReader(new) = Places(list, Reading)
      /\ WithWriter(new) = Places(list, Writing)
      /\ WithReader(node) = Places(node.endpoints, Reading)
      /\ WithWriter(node) = Places(node.endpoints, Writing)
      /\ Cardinality(WithReader(node)) \in 0 .. Len(node.endpoints)
      /\ Cardinality(WithWriter(node)) \in 0 .. Len(node.endpoints)
      /\ Len(node.endpoints) \in Nat
  BY <1>1, <1>3, <1>4, CountedPlaces, LenProperties
<1> HIDE DEF endp
<1>8. ReadersInStep(node, new)
  BY <1>4, <1>5, <1>6, <1>7 DEF ReadersInStep, InStep
<1>9. WritersInStep(node, new)
  BY <1>4, <1>5, <1>6, <1>7 DEF WritersInStep, InStep
<1> QED
  BY <1>8, <1>9 DEF new

-----------------------------------------------------------------------------
(* The invariant is inductive. *)

\* The invariant holds when initialize returns.
LEMMA InitIInv == Init => IInv
<1> SUFFICES ASSUME Init PROVE IInv
  OBVIOUS
<1>1. nodes \in Seq(Node) /\ DOMAIN nodes = {}
  BY EmptySeq DEF Init
<1>2. node_handle_next \in Counters
  BY RegistryAssumption DEF Init, Counters
<1>3. inspection \in Inspection /\ Idle
  BY DEF Init, NoInspection, Inspection, Phases, Callers, Idle
<1>4. TypeOK
  BY <1>1, <1>2, <1>3 DEF TypeOK, Init
<1> QED
  BY <1>1, <1>4 DEF IInv, UniqueNodeHandles, UniqueNodeNames, UniqueEndpointHandles

\* Calls that register and unregister nodes.
LEMMA NodeCallIInv ==
  ASSUME IInv, NodeCall
  PROVE  IInv'
<1>0. NodesInv /\ TypeOK
  BY DEF IInv, NodesInv, TypeOK
<1>1. ASSUME NEW name \in Names, NEW namespace \in Namespaces \cup {NullNamespace},
             NodeArguments(name, namespace)
      PROVE  /\ NextHandle(node_handle_next, HandlesIn(nodes)).handle
                  \in Handles \ HandlesIn(nodes)
             /\ NextHandle(node_handle_next, HandlesIn(nodes)).next \in Counters
  <2>1. HandlesIn(nodes) \in SUBSET Handles /\ HandlesIn(nodes) # Handles
    BY <1>0, <1>1, NodesFacts DEF NodeArguments
  <2> QED
    BY <1>0, <2>1, HandleIsFree DEF TypeOK
<1>2. ASSUME NEW name \in Names, NEW namespace \in Namespaces \cup {NullNamespace},
             RegisterLocalNodeFails(name, namespace)
      PROVE  IInv'
  <2>1. node_handle_next' \in Counters /\ drawn' \subseteq Handles
    BY <1>0, <1>1, <1>2 DEF RegisterLocalNodeFails, TypeOK
  <2> QED
    BY <1>2, <2>1 DEF RegisterLocalNodeFails, IInv, TypeOK, UniqueNodeHandles,
      UniqueNodeNames, UniqueEndpointHandles, Idle
<1>3. ASSUME NEW name \in Names, NEW namespace \in Namespaces \cup {NullNamespace},
             NEW dp \in Participants, RegisterLocalNode(name, namespace, dp)
      PROVE  IInv'
  <2> DEFINE fresh == NextHandle(node_handle_next, HandlesIn(nodes))
             space == IF namespace = NullNamespace THEN Root ELSE namespace
             node == [handle |-> fresh.handle, node_name |-> name,
                      node_namespace |-> space,
                      dds_participant |-> dp, endpoints |-> <<>>,
                      readers_len |-> 0, writers_len |-> 0, endp_handle_next |-> 0]
  <2>1. NodeArguments(name, namespace)
    BY <1>3 DEF RegisterLocalNode
  <2>2. fresh.handle \in Handles \ HandlesIn(nodes) /\ fresh.next \in Counters
    BY <1>1, <2>1
  <2>3. /\ nodes' = Append(nodes, node)
        /\ node_handle_next' = fresh.next
        /\ drawn' = drawn \cup {fresh.handle}
        /\ update_queued' = TRUE
        /\ inspection' = IF PollEnabled THEN Begin("register", Len(nodes) + 1, dp)
                                        ELSE NoInspection
        /\ created' = created
    BY <1>3 DEF RegisterLocalNode
  <2> HIDE DEF fresh
  <2>4. space \in Namespaces
    BY RegistryAssumption
  <2>5. node \in Node /\ DistinctEndpoints(node)
    <3>1. <<>> \in Seq(Endpoint) /\ DOMAIN <<>> = {}
      BY EmptySeq
    <3>2. 0 \in Sizes /\ 0 \in Counters
      BY RegistryAssumption DEF Sizes, Counters
    <3> QED
      BY <2>2, <2>4, <3>1, <3>2 DEF Node, DistinctEndpoints
  <2>6. \A i \in DOMAIN nodes : ~(/\ nodes[i].node_name = node.node_name
                                  /\ nodes[i].node_namespace = node.node_namespace)
    BY <2>1 DEF NodeArguments, SameName
  <2>7. NodesInv' /\ DOMAIN nodes' = 1 .. Len(nodes) + 1
    BY <1>0, <2>2, <2>3, <2>5, <2>6, AddNode
  <2>8. inspection' \in Inspection /\ (Idle' \/ inspection'.at \in DOMAIN nodes')
    <3>1. Len(nodes) \in Nat
      BY <1>0, NodesFacts
    <3>2. Begin("register", Len(nodes) + 1, dp) \in Inspection
          /\ Begin("register", Len(nodes) + 1, dp).at = Len(nodes) + 1
      <4>1. "register" \in Callers /\ Len(nodes) + 1 \in Nat /\ created \subseteq Entities
        BY <1>0, <3>1 DEF Callers, TypeOK
      <4> QED
        BY <4>1, BeginType
    <3>3. NoInspection \in Inspection /\ NoInspection.phase = "none"
      BY DEF NoInspection, Inspection, Phases, Callers
    <3> QED
      BY <2>3, <2>7, <3>1, <3>2, <3>3 DEF Idle
  <2> QED
    BY <1>0, <2>2, <2>3, <2>7, <2>8 DEF IInv, NodesInv, TypeOK
<1>4. ASSUME NEW i \in DOMAIN nodes, UnregisterLocalNode(i)
      PROVE  IInv'
  <2>1. NodesInv'
    BY <1>0, <1>4, DropNode DEF UnregisterLocalNode
  <2> QED
    BY <1>0, <1>4, <2>1 DEF UnregisterLocalNode, IInv, NodesInv, TypeOK, Idle
<1> QED
  BY <1>2, <1>3, <1>4 DEF NodeCall

\* Calls that register and unregister endpoints.
LEMMA EndpointCallIInv ==
  ASSUME IInv, EndpointCall
  PROVE  Kept
<1>0. NodesInv /\ TypeOK
  BY DEF IInv, NodesInv, TypeOK
<1>1. Readers \subseteq Args /\ CreatedWriters \subseteq Args
  BY <1>0 DEF Readers, CreatedWriters, Args, TypeOK
<1>2. PICK i \in DOMAIN nodes :
        \/ \E type \in Types, reader \in Readers, writer \in CreatedWriters :
             \/ RegisterLocalEndpoint(i, type, reader, writer)
             \/ RegisterLocalEndpointFails(i, type, reader, writer)
        \/ \E reader \in Readers, writer \in CreatedWriters :
             UnregisterLocalEndpoint(i, reader, writer)
        \/ \E k \in DOMAIN nodes[i].endpoints : UnregisterLocalEndpointByHandle(i, k)
  BY DEF EndpointCall
<1>3. nodes[i] \in Node /\ DistinctEndpoints(nodes[i])
  BY <1>0, NodesFacts
<1>4. nodes[i].endpoints \in Seq(Endpoint)
  BY <1>3 DEF Node
<1>5. ASSUME NEW type \in Types, NEW reader \in Readers, NEW writer \in CreatedWriters,
             RegisterLocalEndpoint(i, type, reader, writer)
      PROVE  Kept
  <2>1. HandlesIn(nodes[i].endpoints) # Handles /\ Idle
        /\ UpdateNode(i, WithEndpoint(nodes[i], type, reader, writer))
    BY <1>5 DEF RegisterLocalEndpoint, EndpointArguments, HasRoom
  <2>2. reader \in Args /\ writer \in Args
    BY <1>1
  <2> QED
    BY <1>3, <2>1, <2>2, WithEndpointType, UpdateNodeInv
<1>6. ASSUME NEW type \in Types, NEW reader \in Readers, NEW writer \in CreatedWriters,
             RegisterLocalEndpointFails(i, type, reader, writer)
      PROVE  Kept
  <2> DEFINE node == WithHandleDrawn(nodes[i])
  <2>1. HandlesIn(nodes[i].endpoints) # Handles /\ Idle
        /\ nodes' = [nodes EXCEPT ![i] = node]
    BY <1>6 DEF RegisterLocalEndpointFails, EndpointArguments, HasRoom
  <2>2. /\ node \in Node
        /\ node = [nodes[i] EXCEPT !.endp_handle_next = node.endp_handle_next]
    BY <1>3, <2>1, WithHandleDrawnType
  <2> HIDE DEF node
  <2>3. /\ node.handle = nodes[i].handle
        /\ node.node_name = nodes[i].node_name
        /\ node.node_namespace = nodes[i].node_namespace
        /\ node.endpoints = nodes[i].endpoints
    BY <1>3, <2>2 DEF Node
  <2>4. DistinctEndpoints(node)
    BY <1>3, <2>3 DEF DistinctEndpoints
  <2>5. NodesInv' /\ DOMAIN nodes' = DOMAIN nodes /\ HandlesIn(nodes') = HandlesIn(nodes)
    BY <1>0, <2>1, <2>2, <2>3, <2>4, ReplaceNode
  <2> QED
    BY <1>0, <1>6, <2>5 DEF RegisterLocalEndpointFails, Kept, IInv, NodesInv, TypeOK, Idle
<1>7. ASSUME NEW k \in DOMAIN nodes[i].endpoints, Idle,
             UpdateNode(i, WithoutEndpoint(nodes[i], k))
      PROVE  Kept
  BY <1>3, <1>7, WithoutEndpointType, UpdateNodeInv
<1>8. ASSUME NEW reader \in Readers, NEW writer \in CreatedWriters,
             UnregisterLocalEndpoint(i, reader, writer)
      PROVE  Kept
  <2>1. Holding(nodes[i], reader, writer) \subseteq DOMAIN nodes[i].endpoints
        /\ Holding(nodes[i], reader, writer) # {}
    BY <1>8 DEF UnregisterLocalEndpoint, Holding
  <2>2. LowestOf(Holding(nodes[i], reader, writer)) \in DOMAIN nodes[i].endpoints
    BY <1>4, <2>1, LowestPlace
  <2> QED
    BY <1>7, <1>8, <2>2 DEF UnregisterLocalEndpoint
<1>9. ASSUME NEW k \in DOMAIN nodes[i].endpoints, UnregisterLocalEndpointByHandle(i, k)
      PROVE  Kept
  BY <1>7, <1>9 DEF UnregisterLocalEndpointByHandle
<1> QED
  BY <1>2, <1>5, <1>6, <1>8, <1>9

\* An inspected node that is changed, the inspection staying on the same node.
LEMMA InspectedChanges ==
  ASSUME IInv, ~Idle, NEW node \in Node, DistinctEndpoints(node),
         node.handle = Inspected.handle,
         node.node_name = Inspected.node_name,
         node.node_namespace = Inspected.node_namespace,
         nodes' = [nodes EXCEPT ![inspection.at] = node],
         inspection' \in Inspection, inspection'.at = inspection.at,
         UNCHANGED <<node_handle_next, created, update_queued, drawn>>
  PROVE  Kept
<1>1. NodesInv /\ inspection.at \in DOMAIN nodes
  BY DEF IInv, NodesInv, TypeOK
<1>2. NodesInv' /\ DOMAIN nodes' = DOMAIN nodes /\ HandlesIn(nodes') = HandlesIn(nodes)
  BY <1>1, ReplaceNode DEF Inspected
<1> QED
  BY <1>1, <1>2 DEF Kept, IInv, NodesInv, TypeOK

\* The nodes stay, and the inspection stays on the same node.
LEMMA InspectionMoves ==
  ASSUME IInv, ~Idle, UNCHANGED <<nodes, node_handle_next, created, drawn>>,
         update_queued' \in BOOLEAN,
         inspection' \in Inspection, inspection'.at = inspection.at
  PROVE  Kept
  BY DEF Kept, HandlesIn, IInv, TypeOK, UniqueNodeHandles, UniqueNodeNames, UniqueEndpointHandles

\* inspect_local_nodeEA visits a DDS endpoint.
LEMMA VisitIInv ==
  ASSUME IInv, NEW e \in Entities,
         InspectSkip(e) \/ InspectRegister(e) \/ InspectAttach(e) \/ InspectOccupied(e)
  PROVE  Kept
<1>1. /\ ~Idle /\ inspection \in Inspection
      /\ UNCHANGED <<node_handle_next, created, update_queued, drawn>>
      /\ update_queued \in BOOLEAN
      /\ inspection.todo \ {e} \in SUBSET Entities
      /\ ReaderOf(e) \in Args /\ WriterOf(e) \in Args
  BY DEF InspectSkip, InspectRegister, InspectAttach, InspectOccupied, Visit, Idle,
    IInv, TypeOK, Inspection, ReaderOf, WriterOf, Args
<1>2. Inspected \in Node /\ DistinctEndpoints(Inspected)
  <2>1. NodesInv /\ inspection.at \in DOMAIN nodes
    BY <1>1 DEF IInv, NodesInv, TypeOK
  <2> QED
    BY <2>1, NodesFacts DEF Inspected
<1>3. CASE InspectSkip(e)
  <2>1. inspection' \in Inspection /\ inspection'.at = inspection.at
    BY <1>1, <1>3 DEF InspectSkip, Inspection
  <2> QED
    BY <1>1, <1>3, <2>1, InspectionMoves DEF InspectSkip
<1>4. CASE InspectRegister(e)
  <2> DEFINE node == WithEndpoint(Inspected, DetectedType(e), ReaderOf(e), WriterOf(e))
  <2>1. DetectedType(e) \in Types /\ HandlesIn(Inspected.endpoints) # Handles
    BY <1>4, DetectedTypeIn DEF InspectRegister, IsNew, HasRoom
  <2>2. /\ node \in Node
        /\ DistinctEndpoints(node)
        /\ node.endpoints[Len(node.endpoints)].handle \in Handles
        /\ node.handle = Inspected.handle
        /\ node.node_name = Inspected.node_name
        /\ node.node_namespace = Inspected.node_namespace
    BY <1>1, <1>2, <2>1, WithEndpointType
  <2>3. /\ nodes' = [nodes EXCEPT ![inspection.at] = node]
        /\ inspection' = [inspection EXCEPT !.todo = @ \ {e},
             !.endp_handle = node.endpoints[Len(node.endpoints)].handle]
    BY <1>4 DEF InspectRegister
  <2> HIDE DEF node
  <2>4. inspection' \in Inspection /\ inspection'.at = inspection.at
    BY <1>1, <2>2, <2>3 DEF Inspection
  <2> QED
    BY <1>1, <2>2, <2>3, <2>4, InspectedChanges
<1>5. CASE InspectAttach(e)
  <2> DEFINE k == LowestOf(Paired(e))
             endp == [Inspected.endpoints[k] EXCEPT !.dds_writer = e]
             list == [Inspected.endpoints EXCEPT ![k] = endp]
             node == [Inspected EXCEPT !.endpoints = list]
  <2>1. Inspected.endpoints \in Seq(Endpoint)
    BY <1>2 DEF Node
  <2>2. k \in DOMAIN Inspected.endpoints
    <3>1. Paired(e) \subseteq DOMAIN Inspected.endpoints /\ Paired(e) # {}
      BY <1>5 DEF InspectAttach, Paired, ReadingTopic
    <3> QED
      BY <2>1, <3>1, LowestPlace
  <2>3. k \in 1 .. Len(Inspected.endpoints) /\ Inspected.endpoints[k] \in Endpoint
    BY <2>1, <2>2, LenProperties, ElementOfSeq
  <2>4. nodes' = [nodes EXCEPT ![inspection.at] = node]
    BY <1>5 DEF InspectAttach, Inspected
  <2>5. inspection' \in Inspection /\ inspection'.at = inspection.at
    BY <1>1, <1>5 DEF InspectAttach, Inspection, Phases
  <2> HIDE DEF k
  <2>6. endp \in Endpoint /\ endp.handle = Inspected.endpoints[k].handle
    BY <2>3 DEF Endpoint
  <2> HIDE DEF endp
  <2>7. list \in Seq(Endpoint) /\ DOMAIN list = DOMAIN Inspected.endpoints
    BY <2>1, <2>3, <2>6, ExceptSeq
  <2>8. \A j \in DOMAIN list : list[j].handle = Inspected.endpoints[j].handle
    BY <2>1, <2>6, <2>7
  <2> HIDE DEF list
  <2>9. node \in Node /\ node.endpoints = list
        /\ node.handle = Inspected.handle
        /\ node.node_name = Inspected.node_name
        /\ node.node_namespace = Inspected.node_namespace
    BY <1>2, <2>7 DEF Node
  <2> HIDE DEF node
  <2>10. DistinctEndpoints(node)
    BY <1>2, <2>7, <2>8, <2>9 DEF DistinctEndpoints
  <2> QED
    BY <1>1, <2>4, <2>5, <2>9, <2>10, InspectedChanges
<1>6. CASE InspectOccupied(e)
  <2>1. inspection' \in Inspection /\ inspection'.at = inspection.at
    BY <1>1, <1>6 DEF InspectOccupied, Inspection, Phases
  <2> QED
    BY <1>1, <1>6, <2>1, InspectionMoves DEF InspectOccupied
<1> QED
  BY <1>3, <1>4, <1>5, <1>6

\* The other steps of inspections.
LEMMA InspectionIInv ==
  ASSUME IInv, InspectionStep
  PROVE  Kept
<1>0. NodesInv /\ TypeOK
  BY DEF IInv, NodesInv, TypeOK
<1>1. Len(nodes) \in Nat /\ DOMAIN nodes = 1 .. Len(nodes)
  BY <1>0, NodesFacts
<1>2. ASSUME NEW caller \in Callers, NEW at \in DOMAIN nodes, NEW dp,
             inspection' = Begin(caller, at, dp),
             UNCHANGED <<nodes, node_handle_next, created, update_queued, drawn>>
      PROVE  Kept
  <2>1. inspection' \in Inspection /\ inspection'.at = at
    BY <1>0, <1>1, <1>2, BeginType DEF TypeOK
  <2> QED
    BY <1>2, <2>1 DEF Kept, HandlesIn, IInv, TypeOK, UniqueNodeHandles, UniqueNodeNames,
      UniqueEndpointHandles
<1>3. ASSUME NEW i \in DOMAIN nodes, InspectLocalNode(i)
      PROVE  Kept
  <2>1. "inspect" \in Callers
    BY DEF Callers
  <2> QED
    BY <1>2, <1>3, <2>1 DEF InspectLocalNode
<1>4. CASE Poll
  <2>1. "poll" \in Callers /\ 1 \in DOMAIN nodes
    <3>1. Len(nodes) # 0
      BY <1>0, <1>4, EmptySeq DEF Poll, NodesInv
    <3> QED
      BY <1>1, <3>1 DEF Callers
  <2> QED
    BY <1>2, <1>4, <2>1 DEF Poll
<1>5. CASE InspectFails
  <2>1. ~Idle /\ inspection \in Inspection
        /\ inspection' = [inspection EXCEPT !.phase = "failed"]
    BY <1>0, <1>5 DEF InspectFails, Idle, TypeOK
  <2>2. inspection' \in Inspection /\ inspection'.at = inspection.at
    BY <2>1 DEF Inspection, Phases
  <2>3. inspection.at \in DOMAIN nodes
    BY <1>0, <2>1 DEF TypeOK
  <2>4. CASE UNCHANGED nodes
    BY <1>0, <1>5, <2>1, <2>2, <2>4, InspectionMoves DEF InspectFails, TypeOK
  <2>5. CASE /\ HandlesIn(Inspected.endpoints) # Handles
             /\ nodes' = [nodes EXCEPT ![inspection.at] = WithHandleDrawn(@)]
    <3> DEFINE node == WithHandleDrawn(Inspected)
    <3>1. Inspected \in Node /\ DistinctEndpoints(Inspected)
      BY <1>0, <2>3, NodesFacts DEF Inspected
    <3>2. /\ node \in Node
          /\ node = [Inspected EXCEPT !.endp_handle_next = node.endp_handle_next]
      BY <2>5, <3>1, WithHandleDrawnType
    <3>3. nodes' = [nodes EXCEPT ![inspection.at] = node]
      BY <2>5 DEF Inspected
    <3> HIDE DEF node
    <3>4. /\ node.handle = Inspected.handle
          /\ node.node_name = Inspected.node_name
          /\ node.node_namespace = Inspected.node_namespace
          /\ node.endpoints = Inspected.endpoints
      BY <3>1, <3>2 DEF Node
    <3>5. DistinctEndpoints(node)
      BY <3>1, <3>4 DEF DistinctEndpoints
    <3> QED
      BY <1>5, <2>1, <2>2, <3>2, <3>3, <3>4, <3>5, InspectedChanges DEF InspectFails
  <2> QED
    BY <1>5, <2>4, <2>5 DEF InspectFails
<1>6. CASE InspectReaders
  <2>1. ~Idle /\ inspection \in Inspection
        /\ EntitiesOn(Inspected.dds_participant) \ Writers \in SUBSET Entities
    BY <1>0, <1>6 DEF InspectReaders, Idle, TypeOK, EntitiesOn
  <2>2. inspection' \in Inspection /\ inspection'.at = inspection.at
    BY <1>6, <2>1 DEF InspectReaders, Inspection, Phases
  <2> QED
    BY <1>0, <1>6, <2>1, <2>2, InspectionMoves DEF InspectReaders, TypeOK
<1>7. ASSUME NEW e \in Entities, InspectListed(e)
       PROVE  Kept
  <2>1. ~Idle /\ inspection \in Inspection
        /\ inspection.found \cup {e} \in SUBSET Entities
        /\ inspection.todo \cup {e} \in SUBSET Entities
    BY <1>0, <1>7 DEF InspectListed, Idle, TypeOK, Inspection
  <2>2. inspection' \in Inspection /\ inspection'.at = inspection.at
    BY <1>7, <2>1 DEF InspectListed, Inspection
  <2> QED
    BY <1>0, <1>7, <2>1, <2>2, InspectionMoves DEF InspectListed, TypeOK
<1>8. /\ created \subseteq Entities
      /\ inspection.caller \in Callers /\ inspection.at \in Nat
  BY <1>0 DEF TypeOK, Inspection
<1>9. CASE InspectDone
  <2>1. inspection' \in Inspection /\ (Idle' \/ inspection'.at \in DOMAIN nodes)
    BY <1>0, <1>8, <1>9, FollowingType DEF InspectDone, Idle
  <2>2. update_queued' \in BOOLEAN
    BY <1>0, <1>9 DEF InspectDone, TypeOK
  <2> QED
    BY <1>9, <2>1, <2>2 DEF InspectDone, Kept, HandlesIn, IInv, TypeOK, UniqueNodeHandles,
      UniqueNodeNames, UniqueEndpointHandles
<1>10. CASE InspectAbandoned
  <2>1. /\ inspection' \in Inspection
        /\ \/ Idle'
           \/ inspection.caller = "poll" /\ inspection'.at \in DOMAIN nodes
    BY <1>0, <1>8, <1>10, FollowingType DEF InspectAbandoned, Idle
  <2>2. inspection.at \in DOMAIN nodes
    BY <1>0, <1>10 DEF InspectAbandoned, Idle, TypeOK
  <2>3. NodesInv' /\ HandlesIn(nodes') \subseteq HandlesIn(nodes)
    <3>1. CASE inspection.caller = "register"
      BY <1>0, <1>10, <2>2, <3>1, DropNode DEF InspectAbandoned
    <3>2. CASE inspection.caller # "register"
      BY <1>0, <1>10, <3>2 DEF InspectAbandoned, HandlesIn, NodesInv, UniqueNodeHandles,
        UniqueNodeNames, UniqueEndpointHandles
    <3> QED
      BY <3>1, <3>2
  <2>4. inspection.caller = "poll" => nodes' = nodes
    BY <1>10 DEF InspectAbandoned
  <2> QED
    BY <1>0, <1>10, <2>1, <2>3, <2>4 DEF InspectAbandoned, Kept, IInv, NodesInv, TypeOK
<1> QED
  BY <1>3, <1>4, <1>5, <1>6, <1>7, <1>9, <1>10, VisitIInv DEF InspectionStep

\* Every step keeps the invariant.
LEMMA StepIInv == IInv /\ [Next]_vars => IInv'
<1> SUFFICES ASSUME IInv, [Next]_vars PROVE IInv'
  OBVIOUS
<1>1. CASE NodeCall
  BY <1>1, NodeCallIInv
<1>2. CASE EndpointCall
  BY <1>2, EndpointCallIInv DEF Kept
<1>3. CASE InspectionStep
  BY <1>3, InspectionIInv DEF Kept
<1>4. CASE Environment
  BY <1>4 DEF Environment, CreateEntity, PublishUpdate, IInv, TypeOK,
    UniqueNodeHandles, UniqueNodeNames, UniqueEndpointHandles, Idle
<1>5. CASE UNCHANGED vars
  BY <1>5 DEF vars, IInv, TypeOK, UniqueNodeHandles, UniqueNodeNames,
    UniqueEndpointHandles, Idle
<1> QED
  BY <1>1, <1>2, <1>3, <1>4, <1>5 DEF Next

-----------------------------------------------------------------------------
(* The history of the handles. *)

\* Until every handle has been drawn, those drawn are those below the counter.
DrawnBelow(handles, next) == handles = Handles \/ handles = 0 .. next - 1

DrawnInv == HandlesIn(nodes) \subseteq drawn /\ DrawnBelow(drawn, node_handle_next)

\* next_node_handle draws the counter itself until every handle has been drawn.
LEMMA DrawInOrder ==
  ASSUME NEW next \in Counters, NEW used \in SUBSET Handles, used # Handles,
         NEW handles \in SUBSET Handles, used \subseteq handles,
         DrawnBelow(handles, next)
  PROVE  LET fresh == NextHandle(next, used)
         IN  /\ DrawnBelow(handles \cup {fresh.handle}, fresh.next)
             /\ fresh.handle \in handles => handles = Handles
<1> DEFINE fresh == NextHandle(next, used)
<1>1. fresh.handle \in Handles /\ MaxHandle \in Nat
  BY HandleIsFree, RegistryAssumption
<1>2. CASE handles = Handles
  BY <1>1, <1>2 DEF DrawnBelow
<1>3. CASE handles # Handles
  <2>1. handles = 0 .. next - 1
    BY <1>3 DEF DrawnBelow
  <2>2. next \in 0 .. MaxHandle
    BY <1>1, <1>3, <2>1 DEF Handles, Counters
  <2>3. next \notin used
    BY <2>1, <2>2
  <2> DEFINE ahead == (next .. MaxHandle) \ used
  <2>4. next \in ahead /\ ahead \subseteq Nat /\ \A y \in ahead : next <= y
    BY <1>1, <2>2, <2>3
  <2>5. LowestOf(ahead) = next
    <3>1. LowestOf(ahead) \in ahead /\ \A y \in ahead : LowestOf(ahead) <= y
      BY <2>4, LowestIsIn
    <3> HIDE DEF ahead
    <3>2. LowestOf(ahead) <= next /\ next <= LowestOf(ahead) /\ LowestOf(ahead) \in Nat
      BY <2>4, <3>1
    <3> QED
      BY <2>2, <3>2
  <2>6. ahead # {}
    BY <2>4
  <2>7. fresh = [handle |-> LowestOf(ahead), next |-> LowestOf(ahead) + 1]
    BY <2>6 DEF NextHandle
  <2>8. fresh.handle = next /\ fresh.next = next + 1
    BY <2>5, <2>7
  <2> HIDE DEF fresh
  <2>9. handles \cup {next} = 0 .. (next + 1) - 1 /\ next \notin handles
    BY <2>1, <2>2
  <2> QED
    BY <2>8, <2>9 DEF DrawnBelow, fresh
<1> QED
  BY <1>2, <1>3

\* A step that registers a node, or does not.
LEMMA StepDrawn ==
  ASSUME IInv, DrawnInv, [Next]_vars
  PROVE  /\ DrawnInv'
         /\ \A h \in HandlesIn(nodes') \ HandlesIn(nodes) : h \in drawn => drawn = Handles
<1>0. NodesInv /\ TypeOK
  BY DEF IInv, NodesInv, TypeOK
<1>1. ASSUME NEW name, NEW namespace, NodeArguments(name, namespace)
      PROVE  LET fresh == NextHandle(node_handle_next, HandlesIn(nodes))
             IN  /\ DrawnBelow(drawn \cup {fresh.handle}, fresh.next)
                 /\ fresh.handle \in drawn => drawn = Handles
  <2>1. HandlesIn(nodes) \in SUBSET Handles /\ HandlesIn(nodes) # Handles
    BY <1>0, <1>1, NodesFacts DEF NodeArguments
  <2>2. node_handle_next \in Counters /\ drawn \in SUBSET Handles
    BY <1>0 DEF TypeOK
  <2> QED
    BY <2>1, <2>2, DrawInOrder DEF DrawnInv
<1>2. ASSUME NEW name, NEW namespace, RegisterLocalNodeFails(name, namespace)
      PROVE  DrawnInv' /\ HandlesIn(nodes') = HandlesIn(nodes)
  BY <1>1, <1>2 DEF RegisterLocalNodeFails, DrawnInv, HandlesIn
<1>3. ASSUME NEW name, NEW namespace, NEW dp, RegisterLocalNode(name, namespace, dp)
      PROVE  /\ DrawnInv'
             /\ \A h \in HandlesIn(nodes') \ HandlesIn(nodes) :
                  h \in drawn => drawn = Handles
  <2> DEFINE fresh == NextHandle(node_handle_next, HandlesIn(nodes))
             node == [handle |-> fresh.handle, node_name |-> name,
                      node_namespace |-> IF namespace = NullNamespace THEN Root
                                                                      ELSE namespace,
                      dds_participant |-> dp, endpoints |-> <<>>,
                      readers_len |-> 0, writers_len |-> 0, endp_handle_next |-> 0]
  <2>1. /\ NodeArguments(name, namespace)
        /\ nodes' = Append(nodes, node)
        /\ node_handle_next' = fresh.next
        /\ drawn' = drawn \cup {fresh.handle}
    BY <1>3 DEF RegisterLocalNode
  <2>2. /\ DrawnBelow(drawn \cup {fresh.handle}, fresh.next)
        /\ fresh.handle \in drawn => drawn = Handles
    BY <1>1, <2>1
  <2>3. node.handle = fresh.handle
    OBVIOUS
  <2> HIDE DEF node, fresh
  <2>4. HandlesIn(nodes') = HandlesIn(nodes) \cup {fresh.handle}
    <3>1. /\ DOMAIN nodes' = 1 .. Len(nodes) + 1
          /\ DOMAIN nodes = 1 .. Len(nodes)
          /\ Len(nodes) \in Nat
      BY <1>0, <2>1, NodesFacts
    <3>2. /\ \A i \in 1 .. Len(nodes) : nodes'[i] = nodes[i]
          /\ nodes'[Len(nodes) + 1] = node
      BY <1>0, <2>1, <3>1 DEF NodesInv
    <3> QED
      BY <2>3, <3>1, <3>2 DEF HandlesIn
  <2> QED
    BY <2>1, <2>2, <2>4 DEF DrawnInv
<1>4. ASSUME Kept, UNCHANGED <<node_handle_next, drawn>>
      PROVE  DrawnInv' /\ HandlesIn(nodes') \subseteq HandlesIn(nodes)
  BY <1>4 DEF DrawnInv, Kept
<1>5. CASE NodeCall
  <2>1. ASSUME NEW i \in DOMAIN nodes, UnregisterLocalNode(i)
        PROVE  DrawnInv' /\ HandlesIn(nodes') \subseteq HandlesIn(nodes)
    <3>1. HandlesIn(nodes') \subseteq HandlesIn(nodes)
      BY <1>0, <2>1, DropNode DEF UnregisterLocalNode
    <3> QED
      BY <2>1, <3>1 DEF UnregisterLocalNode, DrawnInv
  <2> QED
    BY <1>2, <1>3, <1>5, <2>1 DEF NodeCall
<1>6. CASE EndpointCall
  <2>1. UNCHANGED <<node_handle_next, drawn>>
    BY <1>6 DEF EndpointCall, RegisterLocalEndpoint, RegisterLocalEndpointFails,
      UnregisterLocalEndpoint, UnregisterLocalEndpointByHandle, UpdateNode
  <2> QED
    BY <1>4, <1>6, <2>1, EndpointCallIInv
<1>7. CASE InspectionStep
  <2>1. UNCHANGED <<node_handle_next, drawn>>
    BY <1>7 DEF InspectionStep, InspectLocalNode, Poll, InspectSkip, InspectRegister,
      InspectAttach, InspectOccupied, Visit, InspectListed, InspectFails, InspectReaders, InspectDone,
      InspectAbandoned
  <2> QED
    BY <1>4, <1>7, <2>1, InspectionIInv
<1>8. CASE Environment
  BY <1>8 DEF Environment, CreateEntity, PublishUpdate, DrawnInv, HandlesIn
<1>9. CASE UNCHANGED vars
  BY <1>9 DEF vars, DrawnInv, HandlesIn
<1> QED
  BY <1>5, <1>6, <1>7, <1>8, <1>9 DEF Next

-----------------------------------------------------------------------------
(* What an inspection has visited. *)

\* A conforming DDS endpoint that the inspection has visited is on the node.
IsOn(e, node) ==
  DetectedType(e) # "unknown" => Holding(node, ReaderOf(e), WriterOf(e)) # {}

VisitedInv ==
  inspection.phase \in {"writers", "readers"} =>
    \A e \in inspection.found \ inspection.todo : IsOn(e, Inspected)

\* A new endpoint holds its DDS endpoints, and those before it keep theirs.
LEMMA WithEndpointHolds ==
  ASSUME NEW node \in Node, NEW type \in Types, NEW reader \in Args, NEW writer \in Args,
         HandlesIn(node.endpoints) # Handles
  PROVE  LET new == WithEndpoint(node, type, reader, writer)
         IN  /\ Holding(new, reader, writer) # {}
             /\ \A r, w : Holding(node, r, w) \subseteq Holding(new, r, w)
<1> DEFINE fresh == NextHandle(node.endp_handle_next, HandlesIn(node.endpoints))
           endp == [handle |-> fresh.handle, endp_type |-> type,
                    dds_reader |-> reader, dds_writer |-> writer]
           list == Append(node.endpoints, endp)
           new == WithEndpoint(node, type, reader, writer)
<1>1. node.endpoints \in Seq(Endpoint) /\ node.endp_handle_next \in Counters
  BY DEF Node
<1>2. HandlesIn(node.endpoints) \in SUBSET Handles
  BY EndpointHandles
<1>3. fresh.handle \in Handles
  BY <1>1, <1>2, HandleIsFree
<1>4. new.endpoints = list
  BY DEF WithEndpoint, Node
<1> HIDE DEF fresh, new
<1>5. endp \in Endpoint /\ endp.dds_reader = reader /\ endp.dds_writer = writer
  BY <1>3 DEF Endpoint, Args
<1> HIDE DEF endp
<1>6. /\ list \in Seq(Endpoint)
      /\ Len(list) = Len(node.endpoints) + 1
      /\ \A i \in 1 .. Len(node.endpoints) : list[i] = node.endpoints[i]
      /\ list[Len(node.endpoints) + 1] = endp
  BY <1>1, <1>5, AppendProperties
<1>7. DOMAIN list = 1 .. Len(node.endpoints) + 1
      /\ DOMAIN node.endpoints = 1 .. Len(node.endpoints)
      /\ Len(node.endpoints) \in Nat
  BY <1>1, <1>6, LenProperties
<1> HIDE DEF list
<1>8. Len(node.endpoints) + 1 \in Holding(new, reader, writer)
  BY <1>4, <1>5, <1>6, <1>7 DEF Holding
<1>9. \A r, w : Holding(node, r, w) \subseteq Holding(new, r, w)
  BY <1>4, <1>6, <1>7 DEF Holding
<1> QED
  BY <1>8, <1>9 DEF new

\* A visit leaves on the node what was there and puts the visited DDS endpoint
\* there, or fails.
LEMMA VisitKeeps ==
  ASSUME IInv, VisitedInv, NEW e \in Entities,
         InspectSkip(e) \/ InspectRegister(e) \/ InspectAttach(e) \/ InspectOccupied(e)
  PROVE  VisitedInv'
<1> SUFFICES ASSUME inspection'.phase \in {"writers", "readers"}
             PROVE  \A x \in inspection'.found \ inspection'.todo : IsOn(x, Inspected')
  BY DEF VisitedInv, IsOn, Holding
<1>1. /\ inspection.phase \in {"writers", "readers"} /\ inspection \in Inspection
      /\ ReaderOf(e) \in Args /\ WriterOf(e) \in Args
  BY DEF InspectSkip, InspectRegister, InspectAttach, InspectOccupied, Visit,
    IInv, TypeOK, ReaderOf, WriterOf, Args
<1>2. \A x \in inspection.found \ inspection.todo : IsOn(x, Inspected)
  BY <1>1 DEF VisitedInv
<1>3. inspection.at \in DOMAIN nodes /\ inspection.found \subseteq Entities
  BY <1>1 DEF IInv, TypeOK, Idle, Inspection
<1>4. Inspected \in Node
  BY <1>3, NodesFacts DEF IInv, TypeOK, NodesInv, Inspected
<1>5. ASSUME inspection'.found = inspection.found,
             inspection'.todo = inspection.todo \ {e},
             IsOn(e, Inspected'),
             \A x \in inspection.found : IsOn(x, Inspected) => IsOn(x, Inspected')
      PROVE  \A x \in inspection'.found \ inspection'.todo : IsOn(x, Inspected')
  BY <1>2, <1>5
<1>6. CASE InspectSkip(e)
  <2>1. /\ inspection'.found = inspection.found
        /\ inspection'.todo = inspection.todo \ {e}
        /\ Inspected' = Inspected
    BY <1>1, <1>6 DEF InspectSkip, Inspection, Inspected
  <2>2. IsOn(e, Inspected)
    BY <1>6 DEF InspectSkip, IsNew, IsOn
  <2> QED
    BY <1>5, <2>1, <2>2
<1>7. CASE InspectRegister(e)
  <2> DEFINE node == WithEndpoint(Inspected, DetectedType(e), ReaderOf(e), WriterOf(e))
  <2>1. DetectedType(e) \in Types /\ HandlesIn(Inspected.endpoints) # Handles
    BY <1>7, DetectedTypeIn DEF InspectRegister, IsNew, HasRoom
  <2>2. /\ nodes' = [nodes EXCEPT ![inspection.at] = node]
        /\ inspection' = [inspection EXCEPT !.todo = @ \ {e},
             !.endp_handle = node.endpoints[Len(node.endpoints)].handle]
    BY <1>7 DEF InspectRegister
  <2>3. /\ Holding(node, ReaderOf(e), WriterOf(e)) # {}
        /\ \A r, w : Holding(Inspected, r, w) \subseteq Holding(node, r, w)
    BY <1>1, <1>4, <2>1, WithEndpointHolds
  <2> HIDE DEF node
  <2>4. /\ inspection'.found = inspection.found
        /\ inspection'.todo = inspection.todo \ {e}
        /\ Inspected' = node
    <3>1. inspection'.at = inspection.at
      BY <1>1, <2>2 DEF Inspection
    <3> QED
      BY <1>1, <1>3, <2>2, <3>1 DEF Inspection, Inspected, IInv, TypeOK
  <2>5. IsOn(e, node) /\ \A x : IsOn(x, Inspected) => IsOn(x, node)
    BY <2>3 DEF IsOn
  <2> QED
    BY <1>5, <2>4, <2>5
<1>8. CASE InspectAttach(e)
  <2> DEFINE k == LowestOf(Paired(e))
             endp == [Inspected.endpoints[k] EXCEPT !.dds_writer = e]
             list == [Inspected.endpoints EXCEPT ![k] = endp]
             node == [Inspected EXCEPT !.endpoints = list]
  <2>1. /\ nodes' = [nodes EXCEPT ![inspection.at] = node]
        /\ e \in Writers
        /\ Inspected.endpoints[k].dds_writer = NoEntity
    BY <1>8 DEF InspectAttach, Inspected
  <2>2. /\ inspection'.found = inspection.found
        /\ inspection'.todo = inspection.todo \ {e}
        /\ inspection'.at = inspection.at
    BY <1>1, <1>8 DEF InspectAttach, Inspection
  <2>3. Inspected' = node
    BY <1>3, <2>1, <2>2 DEF Inspected, IInv, TypeOK
  <2>4. Inspected.endpoints \in Seq(Endpoint)
    BY <1>4 DEF Node
  <2>5. k \in DOMAIN Inspected.endpoints
    <3>1. Paired(e) \subseteq DOMAIN Inspected.endpoints /\ Paired(e) # {}
      BY <1>8 DEF InspectAttach, Paired, ReadingTopic
    <3> QED
      BY <2>4, <3>1, LowestPlace
  <2>6. Inspected.endpoints[k] \in Endpoint
    BY <2>4, <2>5, LenProperties, ElementOfSeq
  <2> HIDE DEF k
  <2>7. /\ DOMAIN node.endpoints = DOMAIN Inspected.endpoints
        /\ \A j \in DOMAIN node.endpoints :
             /\ node.endpoints[j].dds_reader = Inspected.endpoints[j].dds_reader
             /\ j # k => node.endpoints[j].dds_writer = Inspected.endpoints[j].dds_writer
        /\ node.endpoints[k].dds_writer = e
    <3>1. node.endpoints = list
      BY <1>4 DEF Node
    <3> HIDE DEF node
    <3>2. DOMAIN node.endpoints = DOMAIN Inspected.endpoints
      BY <2>4, <3>1
    <3>3. \A j \in DOMAIN Inspected.endpoints :
            node.endpoints[j] = IF j = k THEN endp ELSE Inspected.endpoints[j]
      BY <2>4, <2>5, <3>1
    <3> QED
      BY <2>5, <2>6, <3>2, <3>3 DEF Endpoint
  <2> HIDE DEF node
  <2>8. IsOn(e, node)
    <3>1. ReaderOf(e) = NoEntity /\ WriterOf(e) = e
      BY <2>1 DEF ReaderOf, WriterOf
    <3>2. k \in Holding(node, ReaderOf(e), WriterOf(e))
      BY <2>5, <2>7, <3>1 DEF Holding
    <3> QED
      BY <3>2 DEF IsOn
  <2>9. ASSUME NEW x \in inspection.found, IsOn(x, Inspected)
        PROVE  IsOn(x, node)
    <3>1. WriterOf(x) = NoEntity \/ WriterOf(x) # Inspected.endpoints[k].dds_writer
      BY <2>1
    <3>2. Holding(Inspected, ReaderOf(x), WriterOf(x))
            \subseteq Holding(node, ReaderOf(x), WriterOf(x))
      BY <2>7, <3>1 DEF Holding
    <3> QED
      BY <2>9, <3>2 DEF IsOn
  <2> QED
    BY <1>5, <2>2, <2>3, <2>8, <2>9
<1>9. CASE InspectOccupied(e)
  <2>1. inspection'.phase = "failed"
    BY <1>1, <1>9 DEF InspectOccupied, Inspection
  <2> QED
    BY <2>1
<1> QED
  BY <1>6, <1>7, <1>8, <1>9

\* Every step keeps what is known of the DDS endpoints visited.
LEMMA StepVisited ==
  ASSUME IInv, VisitedInv, [Next]_vars
  PROVE  VisitedInv'
<1>1. ASSUME inspection'.phase \notin {"writers", "readers"}
      PROVE  VisitedInv'
  BY <1>1 DEF VisitedInv
<1>2. ASSUME NEW caller, NEW at, NEW dp, inspection' = Begin(caller, at, dp)
      PROVE  VisitedInv'
  <2>1. inspection'.found \ inspection'.todo = {}
    BY <1>2 DEF Begin
  <2> QED
    BY <2>1 DEF VisitedInv
<1>3. NoInspection.phase = "none"
  BY DEF NoInspection
<1>4. ASSUME NEW caller, NEW at, inspection' = Following(caller, at)
      PROVE  VisitedInv'
  BY <1>1, <1>2, <1>3, <1>4 DEF Following
<1>5. ASSUME UNCHANGED <<nodes, inspection>>
      PROVE  VisitedInv'
  BY <1>5 DEF VisitedInv, IsOn, Holding, Inspected
<1>6. ASSUME Idle, UNCHANGED inspection
      PROVE  VisitedInv'
  BY <1>1, <1>6 DEF Idle
<1>7. CASE NodeCall
  <2>1. ASSUME NEW name, NEW namespace, NEW dp, RegisterLocalNode(name, namespace, dp)
        PROVE  VisitedInv'
    BY <1>1, <1>2, <1>3, <2>1 DEF RegisterLocalNode
  <2>2. ASSUME NEW name, NEW namespace, RegisterLocalNodeFails(name, namespace)
        PROVE  VisitedInv'
    BY <1>5, <2>2 DEF RegisterLocalNodeFails
  <2>3. ASSUME NEW i, UnregisterLocalNode(i)
        PROVE  VisitedInv'
    BY <1>6, <2>3 DEF UnregisterLocalNode
  <2> QED
    BY <1>7, <2>1, <2>2, <2>3 DEF NodeCall
<1>8. CASE EndpointCall
  <2>1. Idle /\ UNCHANGED inspection
    BY <1>8 DEF EndpointCall, RegisterLocalEndpoint, RegisterLocalEndpointFails,
      EndpointArguments, UnregisterLocalEndpoint, UnregisterLocalEndpointByHandle,
      UpdateNode
  <2> QED
    BY <1>6, <2>1
<1>9. CASE InspectionStep
  <2>1. ASSUME NEW i \in DOMAIN nodes, InspectLocalNode(i)
        PROVE  VisitedInv'
    BY <1>2, <2>1 DEF InspectLocalNode
  <2>2. CASE Poll
    BY <1>2, <2>2 DEF Poll
  <2>3. CASE InspectFails
    BY <1>1, <2>3 DEF InspectFails, IInv, TypeOK, Inspection
  <2>4. CASE InspectReaders
    <3>1. /\ inspection.phase = "writers" /\ inspection.todo = {}
          /\ inspection'.found \ inspection'.todo \subseteq inspection.found
          /\ Inspected' = Inspected
      BY <2>4 DEF InspectReaders, IInv, TypeOK, Inspection, Inspected
    <3>2. \A e \in inspection.found : IsOn(e, Inspected)
      BY <3>1 DEF VisitedInv
    <3> QED
      BY <3>1, <3>2 DEF VisitedInv, IsOn, Holding
  <2>5. ASSUME NEW e \in Entities, InspectListed(e)
        PROVE  VisitedInv'
    <3>1. /\ inspection.phase \in {"writers", "readers"}
          /\ inspection'.found \ inspection'.todo
               \subseteq inspection.found \ inspection.todo
          /\ Inspected' = Inspected
      BY <2>5 DEF InspectListed, IInv, TypeOK, Inspection, Inspected
    <3>2. \A x \in inspection.found \ inspection.todo : IsOn(x, Inspected)
      BY <3>1 DEF VisitedInv
    <3> QED
      BY <3>1, <3>2 DEF VisitedInv, IsOn, Holding
  <2>6. CASE InspectDone
    BY <1>4, <2>6 DEF InspectDone
  <2>7. CASE InspectAbandoned
    BY <1>4, <2>7 DEF InspectAbandoned
  <2> QED
    BY <1>9, <2>1, <2>2, <2>3, <2>4, <2>5, <2>6, <2>7, VisitKeeps DEF InspectionStep
<1>10. CASE Environment
  <2>1. ASSUME NEW e, CreateEntity(e)
        PROVE  VisitedInv'
    BY <1>5, <2>1 DEF CreateEntity
  <2>2. CASE PublishUpdate
    BY <1>5, <2>2 DEF PublishUpdate
  <2> QED
    BY <1>10, <2>1, <2>2 DEF Environment
<1>11. CASE UNCHANGED vars
  BY <1>5, <1>11 DEF vars
<1> QED
  BY <1>7, <1>8, <1>9, <1>10, <1>11 DEF Next

-----------------------------------------------------------------------------
(* CountersFollow, step by step. *)

\* The node with the handle of node i after a step in which node `at` became
\* `node`.
LEMMA ReplacedNode ==
  ASSUME NodesInv, NEW at \in DOMAIN nodes, NEW node, node.handle = nodes[at].handle,
         nodes' = [nodes EXCEPT ![at] = node],
         NEW i \in DOMAIN nodes, NEW j \in DOMAIN nodes', nodes[i].handle = nodes'[j].handle
  PROVE  nodes'[j] = nodes[i] \/ (i = at /\ nodes'[j] = node)
<1>1. DOMAIN nodes' = DOMAIN nodes
  BY NodesFacts DEF NodesInv
<1>2. CASE j = at
  <2>1. nodes'[j] = node
    BY <1>2
  <2> QED
    BY <1>2, <2>1 DEF NodesInv, UniqueNodeHandles
<1>3. CASE j # at
  <2>1. nodes'[j] = nodes[j]
    BY <1>1, <1>3
  <2> QED
    BY <1>1, <2>1 DEF NodesInv, UniqueNodeHandles
<1> QED
  BY <1>2, <1>3

\* The node stays where nodes are only added or taken away.
LEMMA SameNode ==
  ASSUME NodesInv, NEW i \in DOMAIN nodes, NEW node, nodes[i].handle = node.handle,
         \E k \in DOMAIN nodes : node = nodes[k]
  PROVE  ReadersInStep(nodes[i], node) /\ WritersInStep(nodes[i], node)
<1>1. node = nodes[i]
  BY DEF NodesInv, UniqueNodeHandles
<1> QED
  BY <1>1, SameInStep

\* What a step may do to the counters of a node that stays.
NodesFollow ==
  \A i \in DOMAIN nodes, j \in DOMAIN nodes' :
    nodes[i].handle = nodes'[j].handle =>
      /\ ReadersInStep(nodes[i], nodes'[j])
      /\ WritersInStep(nodes[i], nodes'[j])

\* A step that leaves the nodes alone.
LEMMA UnchangedFollow ==
  ASSUME NodesInv, UNCHANGED nodes
  PROVE  NodesFollow
BY SameNode DEF NodesFollow

\* A step that replaces one node by one that follows it.
LEMMA ReplacedFollow ==
  ASSUME NodesInv, NEW at \in DOMAIN nodes, NEW node, node.handle = nodes[at].handle,
         nodes' = [nodes EXCEPT ![at] = node],
         ReadersInStep(nodes[at], node), WritersInStep(nodes[at], node)
  PROVE  NodesFollow
<1> SUFFICES ASSUME NEW i \in DOMAIN nodes, NEW j \in DOMAIN nodes',
                    nodes[i].handle = nodes'[j].handle
             PROVE  ReadersInStep(nodes[i], nodes'[j]) /\ WritersInStep(nodes[i], nodes'[j])
  BY DEF NodesFollow
<1>1. CASE nodes'[j] = nodes[i]
  BY <1>1, SameInStep
<1>2. CASE i = at /\ nodes'[j] = node
  BY <1>2
<1>3. DOMAIN nodes' = DOMAIN nodes
  BY NodesFacts DEF NodesInv
<1>4. CASE j = at
  <2>1. nodes'[j] = node
    BY <1>4
  <2>2. i = at
    BY <1>4, <2>1 DEF NodesInv, UniqueNodeHandles
  <2> QED
    BY <1>2, <2>1, <2>2
<1>5. CASE j # at
  <2>1. nodes'[j] = nodes[j] /\ j \in DOMAIN nodes
    BY <1>3, <1>5
  <2>2. i = j
    BY <2>1 DEF NodesInv, UniqueNodeHandles
  <2> QED
    BY <1>1, <2>1, <2>2
<1> QED
  BY <1>4, <1>5

\* A step that takes one node away.
LEMMA DroppedFollow ==
  ASSUME NodesInv, NEW at \in DOMAIN nodes, nodes' = RemoveAt(nodes, at)
  PROVE  NodesFollow
<1>1. /\ Len(nodes') = Len(nodes) - 1 /\ nodes' \in Seq(Node)
      /\ \A j \in DOMAIN nodes' : nodes'[j] = nodes[IF j < at THEN j ELSE j + 1]
  BY RemoveAtElement DEF NodesInv
<1>2. DOMAIN nodes' = 1 .. Len(nodes) - 1 /\ DOMAIN nodes = 1 .. Len(nodes) /\ Len(nodes) \in Nat
  BY <1>1, NodesFacts, LenProperties
<1>3. \A j \in DOMAIN nodes' : (IF j < at THEN j ELSE j + 1) \in DOMAIN nodes
  BY <1>2
<1>4. \A j \in DOMAIN nodes' : \E k \in DOMAIN nodes : nodes'[j] = nodes[k]
  BY <1>1, <1>3
<1> QED
  BY <1>4, SameNode DEF NodesFollow

\* The calls that register and unregister nodes.
LEMMA NodeCallFollows ==
  ASSUME IInv, NodeCall
  PROVE  NodesFollow
<1>0. NodesInv /\ TypeOK
  BY DEF IInv, NodesInv, TypeOK
<1>1. ASSUME NEW name, NEW namespace, RegisterLocalNodeFails(name, namespace)
      PROVE  NodesFollow
  BY <1>0, <1>1, UnchangedFollow DEF RegisterLocalNodeFails
<1>2. ASSUME NEW name, NEW namespace, NEW dp, RegisterLocalNode(name, namespace, dp)
      PROVE  NodesFollow
  <2> DEFINE fresh == NextHandle(node_handle_next, HandlesIn(nodes))
             node == [handle |-> fresh.handle, node_name |-> name,
                      node_namespace |-> IF namespace = NullNamespace THEN Root
                                                                      ELSE namespace,
                      dds_participant |-> dp, endpoints |-> <<>>,
                      readers_len |-> 0, writers_len |-> 0, endp_handle_next |-> 0]
  <2>1. NodeArguments(name, namespace) /\ nodes' = Append(nodes, node)
    BY <1>2 DEF RegisterLocalNode
  <2>2. fresh.handle \notin HandlesIn(nodes)
    <3>1. HandlesIn(nodes) \in SUBSET Handles /\ HandlesIn(nodes) # Handles
      BY <1>0, <2>1, NodesFacts DEF NodeArguments
    <3> QED
      BY <1>0, <3>1, HandleIsFree DEF TypeOK
  <2>3. node.handle \notin HandlesIn(nodes)
    BY <2>2
  <2> HIDE DEF node
  <2>4. DOMAIN nodes' = 1 .. Len(nodes) + 1 /\ DOMAIN nodes = 1 .. Len(nodes)
        /\ Len(nodes) \in Nat
    BY <1>0, <2>1, NodesFacts
  <2>5. /\ \A i \in 1 .. Len(nodes) : nodes'[i] = nodes[i]
        /\ nodes'[Len(nodes) + 1] = node
    BY <1>0, <2>1, <2>4 DEF NodesInv
  <2>6. \A i \in DOMAIN nodes : nodes[i].handle # node.handle
    BY <2>3 DEF HandlesIn
  <2>7. ASSUME NEW i \in DOMAIN nodes, NEW j \in DOMAIN nodes',
               nodes[i].handle = nodes'[j].handle
        PROVE  \E k \in DOMAIN nodes : nodes'[j] = nodes[k]
    BY <2>4, <2>5, <2>6, <2>7
  <2> QED
    BY <1>0, <2>7, SameNode DEF NodesFollow
<1>3. ASSUME NEW i \in DOMAIN nodes, UnregisterLocalNode(i)
      PROVE  NodesFollow
  BY <1>0, <1>3, DroppedFollow DEF UnregisterLocalNode
<1> QED
  BY <1>1, <1>2, <1>3 DEF NodeCall

\* The calls that register and unregister endpoints.
LEMMA EndpointCallFollows ==
  ASSUME IInv, EndpointCall
  PROVE  NodesFollow
<1>0. NodesInv /\ TypeOK
  BY DEF IInv, NodesInv, TypeOK
<1>1. Readers \subseteq Args /\ CreatedWriters \subseteq Args
  BY <1>0 DEF Readers, CreatedWriters, Args, TypeOK
<1>2. PICK i \in DOMAIN nodes :
        \/ \E type \in Types, reader \in Readers, writer \in CreatedWriters :
             \/ RegisterLocalEndpoint(i, type, reader, writer)
             \/ RegisterLocalEndpointFails(i, type, reader, writer)
        \/ \E reader \in Readers, writer \in CreatedWriters :
             UnregisterLocalEndpoint(i, reader, writer)
        \/ \E k \in DOMAIN nodes[i].endpoints : UnregisterLocalEndpointByHandle(i, k)
  BY DEF EndpointCall
<1>3. nodes[i] \in Node /\ DistinctEndpoints(nodes[i])
      /\ nodes[i].endpoints \in Seq(Endpoint)
  BY <1>0, NodesFacts DEF Node
<1>4. ASSUME NEW type \in Types, NEW reader \in Readers, NEW writer \in CreatedWriters,
             RegisterLocalEndpoint(i, type, reader, writer)
      PROVE  NodesFollow
  <2> DEFINE node == WithEndpoint(nodes[i], type, reader, writer)
  <2>1. HandlesIn(nodes[i].endpoints) # Handles /\ nodes' = [nodes EXCEPT ![i] = node]
    BY <1>4 DEF RegisterLocalEndpoint, EndpointArguments, HasRoom, UpdateNode
  <2>2. /\ ReadersInStep(nodes[i], node) /\ WritersInStep(nodes[i], node)
        /\ node.handle = nodes[i].handle
    BY <1>1, <1>3, <2>1, WithEndpointInStep, WithEndpointType
  <2> HIDE DEF node
  <2> QED
    BY <1>0, <2>1, <2>2, ReplacedFollow
<1>5. ASSUME NEW type \in Types, NEW reader \in Readers, NEW writer \in CreatedWriters,
             RegisterLocalEndpointFails(i, type, reader, writer)
      PROVE  NodesFollow
  <2> DEFINE node == WithHandleDrawn(nodes[i])
  <2>1. nodes' = [nodes EXCEPT ![i] = node]
    BY <1>5 DEF RegisterLocalEndpointFails
  <2>2. /\ node.endpoints = nodes[i].endpoints /\ node.handle = nodes[i].handle
        /\ node.readers_len = nodes[i].readers_len /\ node.writers_len = nodes[i].writers_len
    BY <1>3 DEF WithHandleDrawn, Node
  <2> HIDE DEF node
  <2> QED
    BY <1>0, <2>1, <2>2, SameInStep, ReplacedFollow
<1>6. ASSUME NEW k \in DOMAIN nodes[i].endpoints,
             UpdateNode(i, WithoutEndpoint(nodes[i], k))
      PROVE  NodesFollow
  <2> DEFINE node == WithoutEndpoint(nodes[i], k)
  <2>1. nodes' = [nodes EXCEPT ![i] = node]
    BY <1>6 DEF UpdateNode
  <2>2. /\ ReadersInStep(nodes[i], node) /\ WritersInStep(nodes[i], node)
        /\ node.handle = nodes[i].handle
    BY <1>3, WithoutEndpointInStep, WithoutEndpointType
  <2> HIDE DEF node
  <2> QED
    BY <1>0, <2>1, <2>2, ReplacedFollow
<1>7. ASSUME NEW reader \in Readers, NEW writer \in CreatedWriters,
             UnregisterLocalEndpoint(i, reader, writer)
      PROVE  NodesFollow
  <2>1. Holding(nodes[i], reader, writer) \subseteq DOMAIN nodes[i].endpoints
        /\ Holding(nodes[i], reader, writer) # {}
    BY <1>7 DEF UnregisterLocalEndpoint, Holding
  <2>2. LowestOf(Holding(nodes[i], reader, writer)) \in DOMAIN nodes[i].endpoints
    BY <1>3, <2>1, LowestPlace
  <2> QED
    BY <1>6, <1>7, <2>2 DEF UnregisterLocalEndpoint
<1>8. ASSUME NEW k \in DOMAIN nodes[i].endpoints, UnregisterLocalEndpointByHandle(i, k)
      PROVE  NodesFollow
  BY <1>6, <1>8 DEF UnregisterLocalEndpointByHandle
<1> QED
  BY <1>2, <1>4, <1>5, <1>7, <1>8

\* Where an inspection attaches a writer, the readers are counted all the same.
LEMMA AttachFollows ==
  ASSUME IInv, NEW e \in Entities, InspectAttach(e),
         NEW i \in DOMAIN nodes, NEW j \in DOMAIN nodes', nodes[i].handle = nodes'[j].handle
  PROVE  ReadersInStep(nodes[i], nodes'[j])
<1> DEFINE k == LowestOf(Paired(e))
           list == [Inspected.endpoints EXCEPT ![k].dds_writer = e]
           node == [Inspected EXCEPT !.endpoints = list]
<1>0. NodesInv /\ inspection.at \in DOMAIN nodes
  BY DEF IInv, NodesInv, TypeOK, InspectAttach, Visit, Idle
<1>1. Inspected \in Node /\ Inspected = nodes[inspection.at]
  BY <1>0, NodesFacts DEF Inspected
<1>2. Inspected.endpoints \in Seq(Endpoint)
  BY <1>1 DEF Node
<1>3. \A m \in DOMAIN Inspected.endpoints : Inspected.endpoints[m] \in Endpoint
  BY <1>2, LenProperties, ElementOfSeq
<1>4. nodes' = [nodes EXCEPT ![inspection.at] = node]
  BY DEF InspectAttach, Inspected
<1> HIDE DEF k
<1>5. /\ DOMAIN list = DOMAIN Inspected.endpoints
      /\ \A m \in DOMAIN list : list[m].dds_reader = Inspected.endpoints[m].dds_reader
  BY <1>3 DEF Endpoint
<1> HIDE DEF list
<1>6. /\ node.endpoints = list /\ node.handle = Inspected.handle
      /\ node.readers_len = Inspected.readers_len
  BY <1>1 DEF Node
<1> HIDE DEF node
<1>7. ReadersInStep(Inspected, node)
  BY <1>5, <1>6 DEF ReadersInStep, InStep, WithReader
<1>8. CASE nodes'[j] = nodes[i]
  BY <1>8, SameInStep
<1>9. CASE i = inspection.at /\ nodes'[j] = node
  BY <1>1, <1>7, <1>9
<1>10. nodes'[j] = nodes[i] \/ (i = inspection.at /\ nodes'[j] = node)
  <2>1. node.handle = nodes[inspection.at].handle
    BY <1>1, <1>6
  <2> QED
    BY <1>0, <1>4, <2>1, ReplacedNode
<1> QED
  BY <1>8, <1>9, <1>10

\* The steps of an inspection.
LEMMA InspectionFollows ==
  ASSUME IInv, InspectionStep
  PROVE  NodesFollow \/ \E e \in Entities : InspectAttach(e)
<1>0. NodesInv /\ TypeOK
  BY DEF IInv, NodesInv, TypeOK
<1>1. ASSUME NEW e \in Entities, InspectRegister(e)
      PROVE  NodesFollow
  <2> DEFINE node == WithEndpoint(Inspected, DetectedType(e), ReaderOf(e), WriterOf(e))
  <2>1. /\ inspection.at \in DOMAIN nodes
        /\ DetectedType(e) \in Types /\ HandlesIn(Inspected.endpoints) # Handles
        /\ ReaderOf(e) \in Args /\ WriterOf(e) \in Args
        /\ nodes' = [nodes EXCEPT ![inspection.at] = node]
    BY <1>0, <1>1, DetectedTypeIn
       DEF InspectRegister, IsNew, HasRoom, Visit, Idle, TypeOK, ReaderOf, WriterOf, Args
  <2>2. Inspected \in Node /\ Inspected = nodes[inspection.at] /\ DistinctEndpoints(Inspected)
    BY <1>0, <2>1, NodesFacts DEF Inspected
  <2>3. /\ ReadersInStep(Inspected, node) /\ WritersInStep(Inspected, node)
        /\ node.handle = Inspected.handle
    BY <2>1, <2>2, WithEndpointInStep, WithEndpointType
  <2> HIDE DEF node
  <2> QED
    BY <1>0, <2>1, <2>2, <2>3, ReplacedFollow
<1>2. CASE InspectFails
  <2>1. CASE UNCHANGED nodes
    BY <1>0, <2>1, UnchangedFollow
  <2>2. CASE nodes' = [nodes EXCEPT ![inspection.at] = WithHandleDrawn(@)]
    <3> DEFINE node == WithHandleDrawn(Inspected)
    <3>1. inspection.at \in DOMAIN nodes
      BY <1>0, <1>2 DEF TypeOK, InspectFails, Idle
    <3>2. Inspected \in Node /\ Inspected = nodes[inspection.at]
      BY <1>0, <3>1, NodesFacts DEF Inspected
    <3>3. /\ node.endpoints = Inspected.endpoints /\ node.handle = Inspected.handle
          /\ node.readers_len = Inspected.readers_len
          /\ node.writers_len = Inspected.writers_len
      BY <3>2 DEF WithHandleDrawn, Node
    <3>4. nodes' = [nodes EXCEPT ![inspection.at] = node]
      BY <2>2 DEF Inspected
    <3> HIDE DEF node
    <3> QED
      BY <1>0, <3>1, <3>2, <3>3, <3>4, SameInStep, ReplacedFollow
  <2> QED
    BY <1>2, <2>1, <2>2 DEF InspectFails
<1>3. CASE InspectAbandoned
  <2>1. inspection.at \in DOMAIN nodes
    BY <1>0, <1>3 DEF InspectAbandoned, Idle, TypeOK
  <2> QED
    BY <1>0, <1>3, <2>1, DroppedFollow, UnchangedFollow DEF InspectAbandoned
<1>4. ASSUME \/ \E i \in DOMAIN nodes : InspectLocalNode(i)
             \/ Poll \/ InspectReaders \/ InspectDone
             \/ \E e \in Entities : InspectSkip(e) \/ InspectOccupied(e) \/ InspectListed(e)
      PROVE  NodesFollow
  <2>1. UNCHANGED nodes
    BY <1>4 DEF InspectLocalNode, Poll, InspectReaders, InspectDone, InspectSkip,
      InspectOccupied, InspectListed
  <2> QED
    BY <1>0, <2>1, UnchangedFollow
<1> QED
  BY <1>1, <1>2, <1>3, <1>4 DEF InspectionStep

\* Every step of the registry.
LEMMA StepFollows ==
  ASSUME IInv, [Next]_vars
  PROVE  \A i \in DOMAIN nodes, j \in DOMAIN nodes' :
           nodes[i].handle = nodes'[j].handle =>
             /\ ReadersInStep(nodes[i], nodes'[j])
             /\ \/ \E e \in Entities : InspectAttach(e)
                \/ WritersInStep(nodes[i], nodes'[j])
<1>0. NodesInv
  BY DEF IInv, NodesInv, TypeOK
<1>1. CASE NodeCall
  BY <1>1, NodeCallFollows DEF NodesFollow
<1>2. CASE EndpointCall
  BY <1>2, EndpointCallFollows DEF NodesFollow
<1>3. CASE InspectionStep
  BY <1>3, InspectionFollows, AttachFollows DEF NodesFollow
<1>4. CASE Environment \/ UNCHANGED vars
  <2>1. UNCHANGED nodes
    BY <1>4 DEF Environment, CreateEntity, PublishUpdate, vars
  <2> QED
    BY <1>0, <2>1, UnchangedFollow DEF NodesFollow
<1> QED
  BY <1>1, <1>2, <1>3, <1>4 DEF Next

-----------------------------------------------------------------------------
(* Theorems. *)

\* The inductive invariant: types, distinct node handles and names, and distinct
\* endpoint handles on every node.
THEOREM InvariantHolds == Spec => []IInv
<1>1. Init => IInv
  BY InitIInv
<1>2. IInv /\ [Next]_vars => IInv'
  BY StepIInv
<1> QED
  BY <1>1, <1>2, PTL DEF Spec

\* Every variable keeps its type: the list is a list of nodes, and handles and
\* counters stay in the range of their C types.
THEOREM TypeCorrect == Spec => []TypeOK
<1>1. IInv => TypeOK
  BY DEF IInv
<1> QED
  BY <1>1, InvariantHolds, PTL

\* A node handle names one node, whatever was registered, unregistered or failed
\* and however often the counter of next_node_handle has overflowed.
THEOREM NodeHandlesUnique == Spec => []UniqueNodeHandles
<1>1. IInv => UniqueNodeHandles
  BY DEF IInv
<1> QED
  BY <1>1, InvariantHolds, PTL

\* register_local_node never lets two nodes have one name and namespace.
THEOREM NodeNamesUnique == Spec => []UniqueNodeNames
<1>1. IInv => UniqueNodeNames
  BY DEF IInv
<1> QED
  BY <1>1, InvariantHolds, PTL

\* An endpoint handle names one endpoint of its node, by whatever call or
\* inspection it was registered.
THEOREM EndpointHandlesUnique == Spec => []UniqueEndpointHandles
<1>1. IInv => UniqueEndpointHandles
  BY DEF IInv
<1> QED
  BY <1>1, InvariantHolds, PTL

\* next_node_handle hands no handle out a second time before every handle has
\* been handed out.
THEOREM HandlesNotReusedEarly == Spec => NoEarlyReuse
<1>1. Init => DrawnInv
  <2> SUFFICES ASSUME Init PROVE DrawnInv
    OBVIOUS
  <2>1. HandlesIn(nodes) = {} /\ drawn = 0 .. node_handle_next - 1
    BY EmptySeq DEF Init, HandlesIn
  <2> QED
    BY <2>1 DEF DrawnInv, DrawnBelow
<1>2. IInv /\ DrawnInv /\ [Next]_vars
      => /\ DrawnInv'
         /\ [\A h \in HandlesIn(nodes') \ HandlesIn(nodes) :
               h \in drawn => drawn = Handles]_vars
  BY StepDrawn
<1> QED
  BY <1>1, <1>2, InvariantHolds, PTL DEF Spec, NoEarlyReuse

\* The counters of a node follow its readers and writers through every step but
\* one, the attachment of a writer by an inspection, whatever their width.
THEOREM CountersAlwaysFollow == Spec => CountersFollow
<1>1. IInv /\ [Next]_vars
      => [\A i \in DOMAIN nodes, j \in DOMAIN nodes' :
            nodes[i].handle = nodes'[j].handle =>
              /\ InStep(nodes[i].readers_len, nodes'[j].readers_len,
                        Cardinality(WithReader(nodes[i])),
                        Cardinality(WithReader(nodes'[j])))
              /\ \/ \E e \in Entities : InspectAttach(e)
                 \/ InStep(nodes[i].writers_len, nodes'[j].writers_len,
                           Cardinality(WithWriter(nodes[i])),
                           Cardinality(WithWriter(nodes'[j])))]_vars
  BY StepFollows DEF ReadersInStep, WritersInStep
<1> QED
  BY <1>1, InvariantHolds, PTL DEF Spec, CountersFollow

\* An inspection that ends well leaves every conforming DDS endpoint it was
\* given on the node.
THEOREM InspectionsAreComplete == Spec => InspectionIsComplete
<1>1. Init => VisitedInv
  BY DEF Init, NoInspection, VisitedInv
<1>2. IInv /\ VisitedInv /\ [Next]_vars
      => /\ VisitedInv'
         /\ [InspectDone =>
               \A e \in inspection.found :
                 DetectedType(e) # "unknown" =>
                   Holding(Inspected, ReaderOf(e), WriterOf(e)) # {}]_vars
  <2>1. ASSUME VisitedInv, InspectDone
        PROVE  \A e \in inspection.found :
                 DetectedType(e) # "unknown" =>
                   Holding(Inspected, ReaderOf(e), WriterOf(e)) # {}
    BY <2>1 DEF VisitedInv, InspectDone, IsOn
  <2> QED
    BY <2>1, StepVisited
<1> QED
  BY <1>1, <1>2, InvariantHolds, PTL DEF Spec, InspectionIsComplete
=============================================================================
