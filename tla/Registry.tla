------------------------------ MODULE Registry ------------------------------
(***************************************************************************)
(* The registry of RTIROS2_Graph: the list of local nodes, the list of     *)
(* endpoints of each node, the handles, and the inspection of a node's     *)
(* DomainParticipant.  Every call holds mutex_self from its first to its   *)
(* last access, so a call is one action; an inspection visits DDS          *)
(* endpoints one at a time and is several actions, during which no other   *)
(* call proceeds (inspection.phase # "none" stands for the held mutex) and *)
(* only the application's creation of DDS endpoints goes on.               *)
(*                                                                         *)
(* Calls that are refused (bad argument, unknown handle, name or DDS       *)
(* endpoint in use, topic name of another type) change nothing and are not *)
(* actions: their conditions are the guards of the actions.                *)
(***************************************************************************)
EXTENDS Integers, Sequences, SequencesExt

CONSTANTS
  Names, Namespaces,   \* strings used for nodes
  Root,                \* the namespace "/"
  NullNamespace,       \* a NULL node_namespace argument
  Participants,        \* DomainParticipants
  Entities,            \* DDS DataReaders and DataWriters
  Writers,             \* those that are DataWriters
  TopicOf,             \* topic name of a DDS endpoint
  PrefixOf,            \* "rt/", "rq/", "rr/" or another prefix, of a topic
  ParticipantOf,       \* participant of a DDS endpoint
  NoEntity,            \* a NULL DataReader or DataWriter
  PollEnabled,         \* poll_period is neither zero nor infinite
  MayFail,             \* DDS operations and allocations may fail
  MaxHandle,           \* INT_MAX, the largest handle
  MaxSize,             \* SIZE_MAX, the largest counter
  MaxNodes,            \* bound: nodes registered at a time
  MaxEndpoints         \* bound: endpoints of a node at a time

ASSUME RegistryAssumption ==
  /\ Root \in Namespaces
  /\ NullNamespace \notin Namespaces
  /\ Writers \subseteq Entities
  /\ NoEntity \notin Entities
  /\ ParticipantOf \in [Entities -> Participants]
  /\ MaxHandle \in Nat /\ MaxSize \in Nat
  /\ MaxNodes \in Nat /\ MaxEndpoints \in 0 .. MaxSize

VARIABLES
  nodes,             \* self->nodes
  node_handle_next,  \* self->node_handle_next
  created,           \* the DDS endpoints that exist
  inspection,        \* the inspection in progress, under the mutex
  update_queued,     \* sem_pinfo has been given since the last update
  drawn              \* history: the handles next_node_handle has returned

vars == <<nodes, node_handle_next, created, inspection, update_queued, drawn>>

-----------------------------------------------------------------------------
(* Handles.  A counter of value MaxHandle + 1 has overflowed to a negative *)
(* number; the search then restarts from 0 and leaves the counter there.   *)

INVALID == -1
Handles == 0 .. MaxHandle
Counters == 0 .. MaxHandle + 1

LowestOf(S) == CHOOSE x \in S : \A y \in S : x <= y

\* Mutant of NextHandle: the handles in use are not looked up.
NextHandleUnchecked(next, used) ==
  IF next \in Handles THEN [handle |-> next, next |-> next + 1]
                      ELSE [handle |-> 0, next |-> 1]

\* Mutant of NextHandle: the counter's overflow is not noticed.
NextHandleOverflowing(next, used) ==
  LET handle == LowestOf((next .. MaxHandle + 1) \ used)
  IN  [handle |-> handle, next |-> LowestOf({handle + 1, MaxHandle + 1})]

\* Mutant of NextHandle: the counter is not kept, the search begins at 0.
NextHandleFromZero(next, used) ==
  [handle |-> LowestOf(Handles \ used), next |-> LowestOf(Handles \ used) + 1]

\* next_node_handle and next_endpoint_handle: the first handle not in used from
\* the counter on, or else from 0 on, with the new value of the counter.  Each
\* has a guard that some handle is free: INT_MAX objects do not fit in memory.
NextHandle(next, used) ==
  LET ahead == (next .. MaxHandle) \ used
      handle == LowestOf(IF ahead # {} THEN ahead ELSE Handles \ used)
  IN  [handle |-> handle,
       next   |-> IF ahead = {} /\ handle = 0 THEN 0 ELSE handle + 1]

-----------------------------------------------------------------------------
(* Nodes and endpoints. *)

Types == {"subscription", "publisher", "client", "service"}
Endpoint == [handle : Handles, endp_type : Types,
             dds_reader : Entities \cup {NoEntity},
             dds_writer : Entities \cup {NoEntity}]
Sizes == 0 .. MaxSize
Node == [handle : Handles, node_name : Names, node_namespace : Namespaces,
         dds_participant : Participants, endpoints : Seq(Endpoint),
         readers_len : Sizes, writers_len : Sizes, endp_handle_next : Counters]

HandlesIn(list) == {list[i].handle : i \in DOMAIN list}

\* size_t counters wrap around.
Plus(size, d) == (size + d) % (MaxSize + 1)

\* detect_endpoint_type, by the prefix of the topic name.
DetectedType(e) ==
  LET writer == e \in Writers
      prefix == PrefixOf[TopicOf[e]]
  IN  CASE prefix = "rt/" -> IF writer THEN "publisher" ELSE "subscription"
        [] prefix = "rr/" -> IF writer THEN "service" ELSE "client"
        [] prefix = "rq/" -> IF writer THEN "client" ELSE "service"
        [] OTHER -> "unknown"

\* Mutant of SameName: a NULL namespace is not that of "/".
SameNameNullApart(node, name, namespace) ==
  node.node_name = name /\ node.node_namespace = namespace

\* lookup_local_node_by_name: the stored namespace is never NULL.
SameName(node, name, namespace) ==
  /\ node.node_name = name
  /\ \/ node.node_namespace = Root /\ namespace \in {NullNamespace, Root}
     \/ namespace # NullNamespace /\ node.node_namespace = namespace

HasRoom(node) ==
  Len(node.endpoints) < MaxEndpoints /\ HandlesIn(node.endpoints) # Handles

\* Places of the endpoints lookup_local_endpoint_by_dds_endpoints accepts; it
\* returns the first.  A NULL argument accepts every endpoint.
Holding(node, reader, writer) ==
  {k \in DOMAIN node.endpoints :
     /\ reader = NoEntity \/ node.endpoints[k].dds_reader = reader
     /\ writer = NoEntity \/ node.endpoints[k].dds_writer = writer}

\* Places of the endpoints lookup_local_endpoint_by_topic_name accepts with
\* writer = FALSE, as inspection always calls it: only readers are compared.
ReadingTopic(node, topic) ==
  {k \in DOMAIN node.endpoints :
     /\ node.endpoints[k].dds_reader # NoEntity
     /\ TopicOf[node.endpoints[k].dds_reader] = topic}

\* register_local_endpoint after its checks: a new endpoint at the back.
WithEndpoint(node, type, reader, writer) ==
  LET fresh == NextHandle(node.endp_handle_next, HandlesIn(node.endpoints))
      endp == [handle |-> fresh.handle, endp_type |-> type,
               dds_reader |-> reader, dds_writer |-> writer]
  IN  [node EXCEPT !.endpoints = Append(@, endp),
                   !.endp_handle_next = fresh.next,
                   !.readers_len = IF reader # NoEntity THEN Plus(@, 1) ELSE @,
                   !.writers_len = IF writer # NoEntity THEN Plus(@, 1) ELSE @]

\* The same when the pool has no buffer: the handle is drawn for nothing.
WithHandleDrawn(node) ==
  [node EXCEPT !.endp_handle_next =
     NextHandle(@, HandlesIn(node.endpoints)).next]

\* Mutant of WithoutEndpoint: the writers are not counted down.
WithoutEndpointUncounted(node, k) ==
  [node EXCEPT
     !.endpoints = RemoveAt(@, k),
     !.readers_len = IF node.endpoints[k].dds_reader # NoEntity
                     THEN Plus(@, MaxSize) ELSE @]

\* finalize_endpoint.
WithoutEndpoint(node, k) ==
  LET endp == node.endpoints[k]
  IN  [node EXCEPT
         !.endpoints = RemoveAt(@, k),
         !.readers_len = IF endp.dds_reader # NoEntity THEN Plus(@, MaxSize) ELSE @,
         !.writers_len = IF endp.dds_writer # NoEntity THEN Plus(@, MaxSize) ELSE @]

-----------------------------------------------------------------------------
(* Inspections. *)

Callers == {"register", "inspect", "poll"}
Phases == {"none", "writers", "readers", "failed"}
Inspection == [phase : Phases, caller : Callers, at : Nat,
               found : SUBSET Entities, todo : SUBSET Entities,
               endp_handle : Handles \cup {INVALID}]

NoInspection == [phase |-> "none", caller |-> "inspect", at |-> 0,
                 found |-> {}, todo |-> {}, endp_handle |-> INVALID]

EntitiesOn(dp) == {e \in created : ParticipantOf[e] = dp}

\* inspect_local_nodeEA begins with the writers of the node's participant.
Begin(caller, at, dp) ==
  LET found == EntitiesOn(dp) \cap Writers
  IN  [phase |-> "writers", caller |-> caller, at |-> at,
       found |-> found, todo |-> found, endp_handle |-> INVALID]

\* What follows the inspection of a node: nothing, but a poll goes on.
Following(caller, at) ==
  IF caller = "poll" /\ at < Len(nodes)
  THEN Begin("poll", at + 1, nodes[at + 1].dds_participant)
  ELSE NoInspection

Idle == inspection.phase = "none"

Init ==
  /\ nodes = <<>>
  /\ node_handle_next = 0
  /\ created = {}
  /\ inspection = NoInspection
  /\ update_queued = FALSE
  /\ drawn = {}

-----------------------------------------------------------------------------
(* Calls. *)

\* The application creates a DDS endpoint; the graph is not told.
CreateEntity(e) ==
  /\ e \notin created
  /\ created' = created \cup {e}
  /\ UNCHANGED <<nodes, node_handle_next, inspection, update_queued, drawn>>

NodeArguments(name, namespace) ==
  /\ Idle
  /\ Len(nodes) < MaxNodes /\ HandlesIn(nodes) # Handles
  /\ \A i \in DOMAIN nodes : ~SameName(nodes[i], name, namespace)

\* register_local_node: a new node at the back of the list, an update queued
\* and, with polling, the inspection of the node begun.
RegisterLocalNode(name, namespace, dp) ==
  /\ NodeArguments(name, namespace)
  /\ LET fresh == NextHandle(node_handle_next, HandlesIn(nodes))
         node == [handle |-> fresh.handle, node_name |-> name,
                  node_namespace |-> IF namespace = NullNamespace THEN Root
                                                                  ELSE namespace,
                  dds_participant |-> dp, endpoints |-> <<>>,
                  readers_len |-> 0, writers_len |-> 0, endp_handle_next |-> 0]
     IN  /\ nodes' = Append(nodes, node)
         /\ node_handle_next' = fresh.next
         /\ drawn' = drawn \cup {fresh.handle}
  /\ update_queued' = TRUE
  /\ inspection' = IF PollEnabled THEN Begin("register", Len(nodes) + 1, dp)
                                  ELSE NoInspection
  /\ UNCHANGED created

\* register_local_node runs out of memory: the handle is drawn for nothing.
RegisterLocalNodeFails(name, namespace) ==
  /\ MayFail
  /\ NodeArguments(name, namespace)
  /\ LET fresh == NextHandle(node_handle_next, HandlesIn(nodes))
     IN  /\ node_handle_next' = fresh.next
         /\ drawn' = drawn \cup {fresh.handle}
  /\ UNCHANGED <<nodes, created, inspection, update_queued>>

\* unregister_local_node: no update is queued.
UnregisterLocalNode(i) ==
  /\ Idle
  /\ i \in DOMAIN nodes
  /\ nodes' = RemoveAt(nodes, i)
  /\ UNCHANGED <<node_handle_next, created, inspection, update_queued, drawn>>

\* A call replaces node i and queues an update.
UpdateNode(i, node) ==
  /\ nodes' = [nodes EXCEPT ![i] = node]
  /\ update_queued' = TRUE
  /\ UNCHANGED <<node_handle_next, created, inspection, drawn>>

\* Mutant of EndpointArguments: endpoints in use are not looked up.
EndpointArgumentsInUse(i, type, reader, writer) ==
  /\ Idle
  /\ i \in DOMAIN nodes
  /\ HasRoom(nodes[i])
  /\ (reader = NoEntity) <=> (type = "publisher")
  /\ (writer = NoEntity) <=> (type = "subscription")
  /\ \A e \in {reader, writer} \ {NoEntity} : DetectedType(e) = type

\* The checks of register_local_subscription, _publisher, _client, _service on
\* their DDS endpoints: which are passed, that no endpoint of the node holds
\* them all, and that the topics are of the right type.
EndpointArguments(i, type, reader, writer) ==
  /\ Idle
  /\ i \in DOMAIN nodes
  /\ HasRoom(nodes[i])
  /\ (reader = NoEntity) <=> (type = "publisher")
  /\ (writer = NoEntity) <=> (type = "subscription")
  /\ Holding(nodes[i], reader, writer) = {}
  /\ \A e \in {reader, writer} \ {NoEntity} : DetectedType(e) = type

RegisterLocalEndpoint(i, type, reader, writer) ==
  /\ EndpointArguments(i, type, reader, writer)
  /\ UpdateNode(i, WithEndpoint(nodes[i], type, reader, writer))

RegisterLocalEndpointFails(i, type, reader, writer) ==
  /\ MayFail
  /\ EndpointArguments(i, type, reader, writer)
  /\ nodes' = [nodes EXCEPT ![i] = WithHandleDrawn(@)]
  /\ UNCHANGED <<node_handle_next, created, inspection, update_queued, drawn>>

\* unregister_local_* with DDS endpoints: the first endpoint that holds them,
\* whatever its type.
UnregisterLocalEndpoint(i, reader, writer) ==
  /\ Idle
  /\ i \in DOMAIN nodes
  /\ <<reader, writer>> # <<NoEntity, NoEntity>>
  /\ Holding(nodes[i], reader, writer) # {}
  /\ UpdateNode(i, WithoutEndpoint(nodes[i],
                                   LowestOf(Holding(nodes[i], reader, writer))))

\* unregister_local_*_by_handle.
UnregisterLocalEndpointByHandle(i, k) ==
  /\ Idle
  /\ i \in DOMAIN nodes
  /\ k \in DOMAIN nodes[i].endpoints
  /\ UpdateNode(i, WithoutEndpoint(nodes[i], k))

-----------------------------------------------------------------------------
(* inspect_local_nodeEA, one DDS endpoint at a time. *)

InspectLocalNode(i) ==
  /\ Idle
  /\ i \in DOMAIN nodes
  /\ inspection' = Begin("inspect", i, nodes[i].dds_participant)
  /\ UNCHANGED <<nodes, node_handle_next, created, update_queued, drawn>>

\* The update thread's wait times out: every node of the list in turn.
Poll ==
  /\ PollEnabled
  /\ Idle
  /\ nodes # <<>>
  /\ inspection' = Begin("poll", 1, nodes[1].dds_participant)
  /\ UNCHANGED <<nodes, node_handle_next, created, update_queued, drawn>>

Inspected == nodes[inspection.at]
ReaderOf(e) == IF e \in Writers THEN NoEntity ELSE e
WriterOf(e) == IF e \in Writers THEN e ELSE NoEntity

\* The endpoint of a client or service that already reads e's topic, if any.
Paired(e) ==
  IF DetectedType(e) \in {"client", "service"}
  THEN ReadingTopic(Inspected, TopicOf[e])
  ELSE {}

Visit(e) ==
  /\ inspection.phase \in {"writers", "readers"}
  /\ e \in inspection.todo
  /\ UNCHANGED <<node_handle_next, created, update_queued, drawn>>

IsNew(e) ==
  /\ Holding(Inspected, ReaderOf(e), WriterOf(e)) = {}
  /\ DetectedType(e) # "unknown"

\* Already registered on the node, or not a ROS 2 topic.
InspectSkip(e) ==
  /\ Visit(e)
  /\ ~IsNew(e)
  /\ inspection' = [inspection EXCEPT !.todo = @ \ {e}]
  /\ UNCHANGED nodes

\* A new endpoint with only this reader or this writer.
InspectRegister(e) ==
  /\ Visit(e)
  /\ IsNew(e)
  /\ Paired(e) = {}
  /\ HasRoom(Inspected)
  /\ LET node == WithEndpoint(Inspected, DetectedType(e), ReaderOf(e), WriterOf(e))
     IN  /\ nodes' = [nodes EXCEPT ![inspection.at] = node]
         /\ inspection' = [inspection EXCEPT !.todo = @ \ {e},
              !.endp_handle = node.endpoints[Len(node.endpoints)].handle]

\* The first endpoint found by topic name has no writer yet: e becomes its
\* writer, whatever its type, and writers_len stays.  The inspection fails all
\* the same while it has registered no endpoint of its own.
InspectAttach(e) ==
  /\ Visit(e)
  /\ IsNew(e)
  /\ e \in Writers
  /\ Paired(e) # {}
  /\ LET k == LowestOf(Paired(e))
     IN  /\ Inspected.endpoints[k].dds_writer = NoEntity
         /\ nodes' = [nodes EXCEPT ![inspection.at].endpoints[k].dds_writer = e]
  /\ inspection' = [inspection EXCEPT !.todo = @ \ {e},
       !.phase = IF inspection.endp_handle = INVALID THEN "failed" ELSE @]

\* Mutant of InspectOccupied: the DDS endpoint is passed over.
InspectOccupiedPassedOver(e) ==
  /\ Visit(e)
  /\ IsNew(e)
  /\ Paired(e) # {}
  /\ e \in Writers =>
       Inspected.endpoints[LowestOf(Paired(e))].dds_writer # NoEntity
  /\ inspection' = [inspection EXCEPT !.todo = @ \ {e}]
  /\ UNCHANGED nodes

\* The first endpoint found by topic name has a DDS endpoint of this kind.
InspectOccupied(e) ==
  /\ Visit(e)
  /\ IsNew(e)
  /\ Paired(e) # {}
  /\ e \in Writers =>
       Inspected.endpoints[LowestOf(Paired(e))].dds_writer # NoEntity
  /\ inspection' = [inspection EXCEPT !.phase = "failed"]
  /\ UNCHANGED nodes

\* The endpoints of each publisher and subscriber are listed when its turn
\* comes: e was created since the inspection began and is listed all the same.
InspectListed(e) ==
  /\ inspection.phase \in {"writers", "readers"}
  /\ e \in EntitiesOn(Inspected.dds_participant) \ inspection.found
  /\ (e \in Writers) <=> (inspection.phase = "writers")
  /\ inspection' = [inspection EXCEPT !.found = @ \cup {e}, !.todo = @ \cup {e}]
  /\ UNCHANGED <<nodes, node_handle_next, created, update_queued, drawn>>

\* A DDS call fails, or there is no memory for an endpoint.
InspectFails ==
  /\ MayFail
  /\ inspection.phase \in {"writers", "readers"}
  /\ inspection' = [inspection EXCEPT !.phase = "failed"]
  /\ \/ UNCHANGED nodes
     \/ /\ HandlesIn(Inspected.endpoints) # Handles
        /\ \E e \in inspection.todo : IsNew(e) /\ Paired(e) = {}
        /\ nodes' = [nodes EXCEPT ![inspection.at] = WithHandleDrawn(@)]
  /\ UNCHANGED <<node_handle_next, created, update_queued, drawn>>

InspectReaders ==
  /\ inspection.phase = "writers"
  /\ inspection.todo = {}
  /\ LET readers == EntitiesOn(Inspected.dds_participant) \ Writers
     IN  inspection' = [inspection EXCEPT !.phase = "readers",
                          !.found = @ \cup readers, !.todo = readers]
  /\ UNCHANGED <<nodes, node_handle_next, created, update_queued, drawn>>

\* Only inspect_local_node queues an update when it is done; the update
\* thread's poll does not, and register_local_node did before.
InspectDone ==
  /\ inspection.phase = "readers"
  /\ inspection.todo = {}
  /\ inspection' = Following(inspection.caller, inspection.at)
  /\ update_queued' = (update_queued \/ inspection.caller = "inspect")
  /\ UNCHANGED <<nodes, node_handle_next, created, drawn>>

\* A failed inspection keeps what it registered, but register_local_node takes
\* its node back.
InspectAbandoned ==
  /\ inspection.phase = "failed"
  /\ nodes' = IF inspection.caller = "register" THEN RemoveAt(nodes, inspection.at)
                                                ELSE nodes
  /\ inspection' = Following(inspection.caller, inspection.at)
  /\ UNCHANGED <<node_handle_next, created, update_queued, drawn>>

\* The update thread takes the token; what it publishes is in UpdateThread.
PublishUpdate ==
  /\ update_queued
  /\ update_queued' = FALSE
  /\ UNCHANGED <<nodes, node_handle_next, created, inspection, drawn>>

-----------------------------------------------------------------------------
\* The DDS endpoints that may be passed to a call, and NULL.
Readers == (created \ Writers) \cup {NoEntity}
CreatedWriters == (created \cap Writers) \cup {NoEntity}

NodeCall ==
  \/ \E name \in Names, namespace \in Namespaces \cup {NullNamespace} :
       \/ RegisterLocalNodeFails(name, namespace)
       \/ \E dp \in Participants : RegisterLocalNode(name, namespace, dp)
  \/ \E i \in DOMAIN nodes : UnregisterLocalNode(i)

EndpointCall ==
  \E i \in DOMAIN nodes :
    \/ \E type \in Types, reader \in Readers, writer \in CreatedWriters :
         \/ RegisterLocalEndpoint(i, type, reader, writer)
         \/ RegisterLocalEndpointFails(i, type, reader, writer)
    \/ \E reader \in Readers, writer \in CreatedWriters :
         UnregisterLocalEndpoint(i, reader, writer)
    \/ \E k \in DOMAIN nodes[i].endpoints : UnregisterLocalEndpointByHandle(i, k)

InspectionStep ==
  \/ \E i \in DOMAIN nodes : InspectLocalNode(i)
  \/ Poll
  \/ \E e \in Entities :
       \/ InspectSkip(e) \/ InspectRegister(e) \/ InspectAttach(e)
       \/ InspectOccupied(e) \/ InspectListed(e)
  \/ InspectFails \/ InspectReaders \/ InspectDone \/ InspectAbandoned

Environment == (\E e \in Entities : CreateEntity(e)) \/ PublishUpdate

Next == NodeCall \/ EndpointCall \/ InspectionStep \/ Environment

Spec == Init /\ [][Next]_vars

-----------------------------------------------------------------------------
(* Properties. *)

TypeOK ==
  /\ nodes \in Seq(Node)
  /\ node_handle_next \in Counters
  /\ created \subseteq Entities
  /\ inspection \in Inspection
  /\ Idle \/ inspection.at \in DOMAIN nodes
  /\ update_queued \in BOOLEAN
  /\ drawn \subseteq Handles

\* A node handle names one node, also after the handle counter has overflowed:
\* lookup_local_node_by_handle stops at the first match.
UniqueNodeHandles ==
  \A i, j \in DOMAIN nodes : nodes[i].handle = nodes[j].handle => i = j

\* No two nodes have the same name and namespace, NULL and "/" being the same
\* namespace; the failed inspection of a registration frees its name again.
UniqueNodeNames ==
  \A i, j \in DOMAIN nodes :
    /\ nodes[i].node_name = nodes[j].node_name
    /\ nodes[i].node_namespace = nodes[j].node_namespace
    => i = j

\* An endpoint handle names one endpoint of its node, whether a call or an
\* inspection registered it and whatever failed in between.
UniqueEndpointHandles ==
  \A n \in DOMAIN nodes : \A i, j \in DOMAIN nodes[n].endpoints :
    nodes[n].endpoints[i].handle = nodes[n].endpoints[j].handle => i = j

\* A stale handle does not come to name another node before every handle has
\* been drawn: the counter skips the handles in use and never goes back.
NoEarlyReuse ==
  [][\A h \in HandlesIn(nodes') \ HandlesIn(nodes) :
       h \in drawn => drawn = Handles]_vars

\* Places of a node's endpoints with a reader, with a writer.
WithReader(node) == {k \in DOMAIN node.endpoints : node.endpoints[k].dds_reader # NoEntity}
WithWriter(node) == {k \in DOMAIN node.endpoints : node.endpoints[k].dds_writer # NoEntity}

\* readers_len and writers_len, which size the sequences of the announcement,
\* count the readers and writers of the node.  It holds of an application that
\* registers its endpoints by calls only (HandlesSpec of GraphHandles): a writer
\* that an inspection attaches to a registered endpoint is not counted.
CountersMatch ==
  \A n \in DOMAIN nodes :
    /\ nodes[n].readers_len = Cardinality(WithReader(nodes[n]))
    /\ nodes[n].writers_len = Cardinality(WithWriter(nodes[n]))

\* A counter stays with the number it counts, or goes up or down by one with it.
InStep(size, newSize, count, newCount) ==
  \/ newSize = size /\ newCount = count
  \/ newSize = Plus(size, 1) /\ newCount = count + 1
  \/ newSize = Plus(size, MaxSize) /\ newCount + 1 = count

\* With inspections readers_len still follows the readers of its node through
\* every call, failure and inspection, and writers_len the writers, except where
\* an inspection attaches a writer: what it misses there it never makes up for,
\* and the unregistration of that endpoint takes it below the writers left.
CountersFollow ==
  [][\A i \in DOMAIN nodes, j \in DOMAIN nodes' :
       nodes[i].handle = nodes'[j].handle =>
         /\ InStep(nodes[i].readers_len, nodes'[j].readers_len,
                   Cardinality(WithReader(nodes[i])),
                   Cardinality(WithReader(nodes'[j])))
         /\ \/ \E e \in Entities : InspectAttach(e)
            \/ InStep(nodes[i].writers_len, nodes'[j].writers_len,
                      Cardinality(WithWriter(nodes[i])),
                      Cardinality(WithWriter(nodes'[j])))]_vars

\* When an inspection ends well, every conforming DDS endpoint that DDS listed
\* is on the node, whatever the node held before: registered by hand, left by an
\* inspection that failed, or attached to another endpoint.
InspectionIsComplete ==
  [][InspectDone =>
       \A e \in inspection.found :
         DetectedType(e) # "unknown" =>
           Holding(Inspected, ReaderOf(e), WriterOf(e)) # {}]_vars
=============================================================================
