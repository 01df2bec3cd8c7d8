---------------------------- MODULE GraphHandles ----------------------------
(***************************************************************************)
(* The rti::ros2::Graph object as an application uses it: the calls it     *)
(* makes on the registry of module Registry, the handles they return, what *)
(* the getters answer to those handles, and the deletion of DDS endpoints  *)
(* that it has unregistered.  `granted` and `granted_nodes` are what the   *)
(* application knows: the handles it was given and what they stand for.    *)
(*                                                                         *)
(* The application registers each endpoint by hand, unregisters what it    *)
(* registered with a handle or with the DDS endpoints it registered, and   *)
(* deletes no DDS endpoint before that.  It neither calls                  *)
(* inspect_local_node nor asks for polling: an inspection may give a       *)
(* registered endpoint a writer that is not counted (InspectAttach of      *)
(* Registry), so what is said here of endpoints and counters is said of    *)
(* applications that do without inspections only.                          *)
(***************************************************************************)
EXTENDS Registry

CONSTANTS
  GraphParticipant,   \* graph_participant_, used when none is passed
  NoParticipant,      \* a null DomainParticipant
  EmptyNamespace      \* an empty node_namespace string

ASSUME HandlesAssumption ==
  /\ GraphParticipant \in Participants
  /\ NoParticipant \notin Participants
  /\ EmptyNamespace \notin Namespaces \cup {NullNamespace}

VARIABLES
  granted_nodes,   \* the nodes registered, each with its handle
  granted          \* the endpoints registered, each with its two handles

handleVars == <<vars, granted_nodes, granted>>

-----------------------------------------------------------------------------
(* Lookups and getters. *)

\* Mutant of NodesAt: the handle is taken for a place in the list.
NodesAtPlace(handle) == {handle + 1} \cap DOMAIN nodes

\* lookup_local_node_by_handle returns the first of these.
NodesAt(handle) == {i \in DOMAIN nodes : nodes[i].handle = handle}
NodeAt(handle) == nodes[LowestOf(NodesAt(handle))]

\* lookup_local_endpoint_by_handle returns the first of these.
EndpointsAt(node, handle) ==
  {k \in DOMAIN node.endpoints : node.endpoints[k].handle = handle}

\* The endpoint that two handles name, or what the getters answer for none.
NoEndpoint == [endp_type |-> "unknown", dds_reader |-> NoEntity, dds_writer |-> NoEntity]

EndpointAt(node_handle, endp_handle) ==
  IF NodesAt(node_handle) = {} THEN NoEndpoint
  ELSE LET node == NodeAt(node_handle)
           found == EndpointsAt(node, endp_handle)
       IN  IF found = {} THEN NoEndpoint ELSE node.endpoints[LowestOf(found)]

get_node_participant(handle) ==
  IF NodesAt(handle) = {} THEN NoParticipant ELSE NodeAt(handle).dds_participant

get_node_name(handle) ==
  IF NodesAt(handle) = {} THEN <<>>
  ELSE <<NodeAt(handle).node_name, NodeAt(handle).node_namespace>>

get_endpoint_reader(node_handle, endp_handle) ==
  EndpointAt(node_handle, endp_handle).dds_reader

get_endpoint_writer(node_handle, endp_handle) ==
  EndpointAt(node_handle, endp_handle).dds_writer

get_endpoint_type(node_handle, endp_handle) ==
  EndpointAt(node_handle, endp_handle).endp_type

-----------------------------------------------------------------------------
(* Calls. *)

HandlesInit ==
  /\ Init
  /\ granted_nodes = {}
  /\ granted = {}

\* What Graph::register_local_node passes on of its arguments.
CNamespace(namespace) ==
  IF namespace = EmptyNamespace THEN NullNamespace ELSE namespace

CParticipant(dp) == IF dp = NoParticipant THEN GraphParticipant ELSE dp

register_local_node(name, namespace, dp) ==
  /\ RegisterLocalNode(name, CNamespace(namespace), CParticipant(dp))
  /\ granted_nodes' = granted_nodes \cup
       {[handle |-> nodes'[Len(nodes')].handle, name |-> name,
         namespace |-> IF namespace \in Namespaces THEN namespace ELSE Root,
         participant |-> IF dp \in Participants THEN dp ELSE GraphParticipant]}
  /\ UNCHANGED granted

register_local_node_fails(name, namespace) ==
  /\ RegisterLocalNodeFails(name, CNamespace(namespace))
  /\ UNCHANGED <<granted_nodes, granted>>

\* The endpoints of the node go with it.
unregister_local_node(known) ==
  /\ UnregisterLocalNode(LowestOf(NodesAt(known.handle)))
  /\ granted_nodes' = granted_nodes \ {known}
  /\ granted' = {endp \in granted : endp.node # known.handle}

register_local_endpoint(known, type, reader, writer) ==
  LET i == LowestOf(NodesAt(known.handle))
  IN  /\ RegisterLocalEndpoint(i, type, reader, writer)
      /\ granted' = granted \cup
           {[node |-> known.handle,
             handle |-> nodes'[i].endpoints[Len(nodes'[i].endpoints)].handle,
             endp_type |-> type, dds_reader |-> reader, dds_writer |-> writer]}
      /\ UNCHANGED granted_nodes

register_local_endpoint_fails(known, type, reader, writer) ==
  /\ RegisterLocalEndpointFails(LowestOf(NodesAt(known.handle)), type, reader, writer)
  /\ UNCHANGED <<granted_nodes, granted>>

unregister_local_endpoint(endp) ==
  /\ UnregisterLocalEndpoint(LowestOf(NodesAt(endp.node)),
                             endp.dds_reader, endp.dds_writer)
  /\ granted' = granted \ {endp}
  /\ UNCHANGED granted_nodes

unregister_local_endpoint_by_handle(endp) ==
  /\ UnregisterLocalEndpointByHandle(LowestOf(NodesAt(endp.node)),
       LowestOf(EndpointsAt(NodeAt(endp.node), endp.handle)))
  /\ granted' = granted \ {endp}
  /\ UNCHANGED granted_nodes

\* The application deletes a DDS endpoint that it has unregistered.
DeleteEntity(e) ==
  /\ e \in created
  /\ \A endp \in granted : e \notin {endp.dds_reader, endp.dds_writer}
  /\ created' = created \ {e}
  /\ UNCHANGED <<nodes, node_handle_next, inspection, update_queued, drawn,
                 granted_nodes, granted>>

\* What an application without inspections does with its graph.
HandlesCall ==
  \/ \E name \in Names, namespace \in Namespaces \cup {EmptyNamespace} :
       \/ register_local_node_fails(name, namespace)
       \/ \E dp \in Participants \cup {NoParticipant} :
            register_local_node(name, namespace, dp)
  \/ \E known \in granted_nodes :
       \/ unregister_local_node(known)
       \/ \E type \in Types, reader \in Readers, writer \in CreatedWriters :
            \/ register_local_endpoint(known, type, reader, writer)
            \/ register_local_endpoint_fails(known, type, reader, writer)
  \/ \E endp \in granted :
       \/ unregister_local_endpoint(endp)
       \/ unregister_local_endpoint_by_handle(endp)
  \/ \E e \in Entities :
       \/ DeleteEntity(e)
       \/ CreateEntity(e) /\ UNCHANGED <<granted_nodes, granted>>

\* The application alone: what the update thread does is in GraphSample.
HandlesSpec == HandlesInit /\ [][HandlesCall]_handleVars

-----------------------------------------------------------------------------
(* Properties. *)

\* The node getters answer to a handle what the application registered under
\* it, and nothing to the handle of a node it has unregistered: also when
\* handles have wrapped around and name other nodes again.
NodeGettersAnswer ==
  \A handle \in Handles :
    IF \E known \in granted_nodes : known.handle = handle
    THEN \A known \in granted_nodes : known.handle = handle =>
           /\ get_node_participant(handle) = known.participant
           /\ get_node_name(handle) = <<known.name, known.namespace>>
    ELSE /\ get_node_participant(handle) = NoParticipant
         /\ get_node_name(handle) = <<>>

\* The endpoint getters answer to a pair of handles the endpoint that the
\* application registered under it and still has, and otherwise none.
EndpointGettersAnswer ==
  \A node_handle, endp_handle \in Handles :
    LET answer == [node |-> node_handle, handle |-> endp_handle,
                   endp_type |-> get_endpoint_type(node_handle, endp_handle),
                   dds_reader |-> get_endpoint_reader(node_handle, endp_handle),
                   dds_writer |-> get_endpoint_writer(node_handle, endp_handle)]
        known == {endp \in granted : endp.node = node_handle /\ endp.handle = endp_handle}
    IN  IF known = {} THEN answer.endp_type = "unknown" ELSE known = {answer}

\* To unregister an endpoint with its DDS endpoints is to unregister it with its
\* handle: the lookup by DDS endpoints, which disregards types and NULLs, finds
\* that endpoint first although others of the node may share one with it.
SameEndpointUnregistered ==
  \A endp \in granted :
    LET node == NodeAt(endp.node)
        holding == Holding(node, endp.dds_reader, endp.dds_writer)
    IN  /\ holding # {}
        /\ node.endpoints[LowestOf(holding)].handle = endp.handle

\* A DDS endpoint on the registry exists, so the update thread, which asks it
\* for its instance handle, never reads one that was deleted: an application
\* that unregisters before it deletes is safe, whichever way it unregisters.
RegisteredExist ==
  \A n \in DOMAIN nodes : \A k \in DOMAIN nodes[n].endpoints :
    {nodes[n].endpoints[k].dds_reader, nodes[n].endpoints[k].dds_writer}
      \subseteq created \cup {NoEntity}
=============================================================================
