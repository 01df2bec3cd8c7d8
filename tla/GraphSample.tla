---------------------------- MODULE GraphSample ----------------------------
(***************************************************************************)
(* The sample of RTIROS2_Graph, composed with the application's calls of   *)
(* module GraphHandles: publish_update gathers the participants, fills the *)
(* one sample self->pinfo for each of them from the nodes of the registry, *)
(* and writes it, while the application goes on calling.  The sample is    *)
(* allocated once: a sequence that shrinks keeps its elements, and the     *)
(* next conversion finds them there.  With the C++ adapter, pinfo is       *)
(* copied to a second sample before the write; the copy is what is visible *)
(* of pinfo, so the model writes that for both adapters.                   *)
(*                                                                         *)
(* A GID is the DDS entity whose instance handle ih_to_gid copies.  How    *)
(* the update thread comes to start a round is UpdateThread's: here a      *)
(* round starts when an update is queued.                                  *)
(***************************************************************************)
EXTENDS GraphHandles

CONSTANTS
  NoGid,      \* a GID slot that was never written
  NoName,     \* a NULL node_name or node_namespace
  Exhausted   \* bound: the fields of the sample for which memory may run out

InfoFields == {"node_name", "node_namespace", "reader_gid_seq", "writer_gid_seq"}

ASSUME SampleAssumption == Exhausted \subseteq InfoFields \cup {"node_entities_info_seq"}

VARIABLES
  stage,      \* where publish_update is
  to_visit,   \* the participants it has yet to convert
  pinfo,      \* self->pinfo, with what lies beyond the lengths
  announced   \* what the last sample written for a participant shows

sampleVars == <<stage, to_visit, pinfo, announced>>
graphVars == <<handleVars, sampleVars>>

-----------------------------------------------------------------------------
(* DDS sequences: the elements that are allocated, and how many show. *)

\* A sequence that must grow keeps the elements that show.
Grown(seq, len, default) ==
  IF len <= Len(seq.slots) THEN seq.slots
  ELSE [i \in 1 .. len |-> IF i <= seq.len THEN seq.slots[i] ELSE default]

\* Mutant of EnsureLength: the length never shrinks.
EnsureLengthGrowing(seq, len, default) ==
  [slots |-> Grown(seq, len, default),
   len   |-> IF len < seq.len THEN seq.len ELSE len]

\* Mutant of EnsureLength: the length is set and the maximum is not.
EnsureLengthInPlace(seq, len, default) == [seq EXCEPT !.len = len]

\* RTIROS2_*Seq_ensure_length: more elements if need be, and the length is set.
EnsureLength(seq, len, default) ==
  [slots |-> Grown(seq, len, default), len |-> len]

Empty == [slots |-> <<>>, len |-> 0]
Shown(seq) == SubSeq(seq.slots, 1, seq.len)

NoInfo == [node_name |-> NoName, node_namespace |-> NoName,
           reader_gid_seq |-> Empty, writer_gid_seq |-> Empty]

\* What a reader of the topic gets of a sample.
ShownInfo(info) ==
  [node_name |-> info.node_name, node_namespace |-> info.node_namespace,
   readers |-> Shown(info.reader_gid_seq), writers |-> Shown(info.writer_gid_seq)]

Visible(sample) ==
  LET infos == Shown(sample.node_entities_info_seq)
  IN  [i \in DOMAIN infos |-> ShownInfo(infos[i])]

-----------------------------------------------------------------------------
(* RTIROS2_Graph_node_to_sample. *)

HasReader(endp) == endp.dds_reader # NoEntity
HasWriter(endp) == endp.dds_writer # NoEntity

\* reader_i and writer_i when the loop is done with the k-th endpoint.
ReaderPlace(node, k) == Cardinality({j \in 1 .. k : HasReader(node.endpoints[j])})
WriterPlace(node, k) == Cardinality({j \in 1 .. k : HasWriter(node.endpoints[j])})

\* The loop writes one GID per endpoint: that of its writer if it has one.
WritersAt(node, i) ==
  {node.endpoints[k].dds_writer :
     k \in {k \in DOMAIN node.endpoints :
              HasWriter(node.endpoints[k]) /\ WriterPlace(node, k) = i}}

\* Mutant of ReadersAt: reader_i is not incremented for a client or service.
ReadersAtUncounted(node, i) ==
  {node.endpoints[k].dds_reader :
     k \in {k \in DOMAIN node.endpoints :
              /\ HasReader(node.endpoints[k])
              /\ ~HasWriter(node.endpoints[k])
              /\ i = Cardinality({j \in 1 .. k : /\ HasReader(node.endpoints[j])
                                                 /\ ~HasWriter(node.endpoints[j])})}}

ReadersAt(node, i) ==
  {node.endpoints[k].dds_reader :
     k \in {k \in DOMAIN node.endpoints :
              /\ HasReader(node.endpoints[k])
              /\ ~HasWriter(node.endpoints[k])
              /\ ReaderPlace(node, k) = i}}

\* The loop writes gids[i] to place i; a slot it does not write keeps what it
\* holds.
Fill(seq, gids) ==
  [seq EXCEPT !.slots = [i \in DOMAIN @ |->
     IF i \in DOMAIN gids /\ gids[i] # {} THEN CHOOSE gid \in gids[i] : TRUE
                                         ELSE @[i]]]

Sized(node, info) ==
  [node_name |-> node.node_name, node_namespace |-> node.node_namespace,
   reader_gid_seq |-> EnsureLength(info.reader_gid_seq, node.readers_len, NoGid),
   writer_gid_seq |-> EnsureLength(info.writer_gid_seq, node.writers_len, NoGid)]

NodeToSample(node, info) ==
  LET sized == Sized(node, info)
  IN  [sized EXCEPT
         !.reader_gid_seq = Fill(@, [i \in 1 .. @.len |-> ReadersAt(node, i)]),
         !.writer_gid_seq = Fill(@, [i \in 1 .. @.len |-> WritersAt(node, i)])]

\* What is left of info when a string cannot be duplicated or a sequence
\* cannot grow, by the field for which there is no memory.
BrokenInfo(node, info, field) ==
  CASE field = "node_name" -> [info EXCEPT !.node_name = NoName]
    [] field = "node_namespace" ->
         [info EXCEPT !.node_name = node.node_name, !.node_namespace = NoName]
    [] field = "reader_gid_seq" ->
         [Sized(node, info) EXCEPT !.reader_gid_seq = info.reader_gid_seq,
                                   !.writer_gid_seq = info.writer_gid_seq]
    [] field = "writer_gid_seq" ->
         [Sized(node, info) EXCEPT !.writer_gid_seq = info.writer_gid_seq]

-----------------------------------------------------------------------------
(* RTIROS2_CGraphSampleAdapter_convert_to_sample. *)

\* The elements of seq at places, in order: the k-th has k places up to its own.
Picked(seq, places) ==
  [k \in 1 .. Cardinality(places) |->
     seq[CHOOSE i \in places : Cardinality({j \in places : j <= i}) = k]]

HostedAt(dp) == {i \in DOMAIN nodes : nodes[i].dds_participant = dp}
NodesOf(dp) == Picked(nodes, HostedAt(dp))

\* The infos with room for every node, whichever participant it is on.
Infos == EnsureLength(pinfo.node_entities_info_seq, Len(nodes), NoInfo)

\* Mutant of Converted: the infos are not cut to the nodes of the participant.
ConvertedUncut(dp) ==
  LET hosted == NodesOf(dp)
  IN  [gid |-> dp,
       node_entities_info_seq |->
         [Infos EXCEPT !.slots = [i \in DOMAIN @ |->
            IF i <= Len(hosted) THEN NodeToSample(hosted[i], @[i]) ELSE @[i]]]]

Converted(dp) ==
  LET hosted == NodesOf(dp)
  IN  [gid |-> dp,
       node_entities_info_seq |->
         [slots |-> [i \in DOMAIN Infos.slots |->
            IF i <= Len(hosted) THEN NodeToSample(hosted[i], Infos.slots[i])
                                ELSE Infos.slots[i]],
          len |-> Len(hosted)]]

\* The conversion stops at the node after the first j.
Broken(dp, j) ==
  LET hosted == NodesOf(dp)
      slots == [i \in DOMAIN Infos.slots |->
                  IF i <= j THEN NodeToSample(hosted[i], Infos.slots[i])
                            ELSE Infos.slots[i]]
  IN  {[gid |-> dp,
        node_entities_info_seq |->
          [slots |-> [slots EXCEPT ![j + 1] = info], len |-> Len(nodes)]] :
         info \in {BrokenInfo(hosted[j + 1], slots[j + 1], field) :
                     field \in Exhausted \cap InfoFields}}

\* The infos cannot be made to hold every node, or not be cut to those that
\* were converted.
Unsized(dp) ==
  IF "node_entities_info_seq" \in Exhausted
  THEN {[pinfo EXCEPT !.gid = dp],
        [Converted(dp) EXCEPT !.node_entities_info_seq.len = Len(nodes)]}
  ELSE {}

-----------------------------------------------------------------------------
(* RTIROS2_Graph_publish_update. *)

\* gather_domain_participants: those of the nodes, each at its first node.
FirstNodes ==
  {i \in DOMAIN nodes : \A j \in 1 .. i - 1 :
                          nodes[j].dds_participant # nodes[i].dds_participant}
GatheredParticipants ==
  Picked([i \in DOMAIN nodes |-> nodes[i].dds_participant], FirstNodes)

\* The update thread has taken the token; gather waits for the mutex.
Gather ==
  /\ stage = "wait"
  /\ update_queued
  /\ Idle
  /\ update_queued' = FALSE
  /\ to_visit' = GatheredParticipants
  /\ stage' = IF to_visit' = <<>> THEN "wait" ELSE "convert"
  /\ UNCHANGED <<nodes, node_handle_next, created, inspection, drawn,
                 granted_nodes, granted, pinfo, announced>>

\* The application's participants cannot be gathered.
GatherFails ==
  /\ MayFail
  /\ stage = "wait"
  /\ update_queued
  /\ Idle
  /\ update_queued' = FALSE
  /\ UNCHANGED <<nodes, node_handle_next, created, inspection, drawn,
                 granted_nodes, granted, sampleVars>>

Convert(dp) ==
  /\ stage = "convert"
  /\ Idle
  /\ dp = Head(to_visit)
  /\ pinfo' = Converted(dp)
  /\ stage' = "publish"
  /\ UNCHANGED <<handleVars, to_visit, announced>>

\* publish_sample, without the mutex: the sample is what Convert left.
Publish ==
  /\ stage = "publish"
  /\ announced' = [announced EXCEPT ![pinfo.gid] = Visible(pinfo)]
  /\ to_visit' = Tail(to_visit)
  /\ stage' = IF to_visit' = <<>> THEN "wait" ELSE "convert"
  /\ UNCHANGED <<handleVars, pinfo>>

\* An error ends the round, with the participants that are left unvisited.
ConvertFails(dp) ==
  /\ MayFail
  /\ stage = "convert"
  /\ Idle
  /\ dp = Head(to_visit)
  /\ \/ \E j \in 0 .. Len(NodesOf(dp)) - 1 : pinfo' \in Broken(dp, j)
     \/ pinfo' \in Unsized(dp)
  /\ stage' = "wait"
  /\ to_visit' = <<>>
  /\ UNCHANGED <<handleVars, announced>>

\* The copy to the C++ sample or the write fails.
PublishFails ==
  /\ MayFail
  /\ stage = "publish"
  /\ stage' = "wait"
  /\ to_visit' = <<>>
  /\ UNCHANGED <<handleVars, pinfo, announced>>

-----------------------------------------------------------------------------
SampleInit ==
  /\ HandlesInit
  /\ stage = "wait"
  /\ to_visit = <<>>
  /\ pinfo \in [gid : Participants, node_entities_info_seq : {Empty}]
  /\ announced = [dp \in Participants |-> <<>>]

UpdateStep ==
  \/ Gather \/ GatherFails
  \/ \E dp \in Participants : Convert(dp) \/ ConvertFails(dp)
  \/ Publish \/ PublishFails

SampleNext ==
  \/ HandlesCall /\ UNCHANGED sampleVars
  \/ UpdateStep

SampleSpec == SampleInit /\ [][SampleNext]_graphVars

-----------------------------------------------------------------------------
(* Properties. *)

Gids == Entities \cup {NoGid}
GidSeq == [slots : Seq(Gids), len : Nat]
Info == [node_name : Names \cup {NoName}, node_namespace : Namespaces \cup {NoName},
         reader_gid_seq : GidSeq, writer_gid_seq : GidSeq]

\* The sample never shows more elements than it holds: no slot is read that was
\* not allocated, whatever failed in the middle of a conversion.
SampleTypeOK ==
  /\ stage \in {"wait", "convert", "publish"}
  /\ to_visit \in Seq(Participants)
  /\ (to_visit = <<>>) <=> (stage = "wait")
  /\ pinfo.gid \in Participants
  /\ LET infos == pinfo.node_entities_info_seq
     IN  /\ infos.slots \in Seq(Info)
         /\ infos.len \in 0 .. Len(infos.slots)
         /\ \A i \in DOMAIN infos.slots :
              LET info == infos.slots[i]
              IN  /\ info.reader_gid_seq.len <= Len(info.reader_gid_seq.slots)
                  /\ info.writer_gid_seq.len <= Len(info.writer_gid_seq.slots)

\* What the registry says of a participant: its nodes, with their writers and
\* readers in the order of registration.
ReadersOf(node) ==
  Picked([k \in DOMAIN node.endpoints |-> node.endpoints[k].dds_reader], WithReader(node))

WritersOf(node) ==
  Picked([k \in DOMAIN node.endpoints |-> node.endpoints[k].dds_writer], WithWriter(node))

NodeContent(node) ==
  [node_name |-> node.node_name, node_namespace |-> node.node_namespace,
   readers |-> ReadersOf(node), writers |-> WritersOf(node)]

Content(dp) ==
  Picked([i \in DOMAIN nodes |-> NodeContent(nodes[i])], HostedAt(dp))

\* The same without the readers, of which only the number is kept.
Uncovered(infos) ==
  [i \in DOMAIN infos |-> [infos[i] EXCEPT !.readers = Len(@)]]

InFlight == IF stage = "publish" THEN {[gid |-> pinfo.gid, nodes |-> Visible(pinfo)]}
                                 ELSE {}

\* The samples of publishers and subscriptions implement Announcement although
\* they are built in slots that earlier samples, of other nodes and of other
\* participants, have left behind: each one is exactly what the registry said
\* of its participant at one instant.
Announcer == INSTANCE Announcement
  WITH Contents <- Seq([node_name : Names, node_namespace : Namespaces,
                        readers : Seq(Entities), writers : Seq(Entities)]),
       Nothing <- <<>>,
       content <- [dp \in Participants |-> Content(dp)],
       inFlight <- InFlight,
       announced <- announced

SampleIsContent == Announcer!Spec

\* With clients and services the same holds of the nodes, of every writer and
\* of the number of readers.
WriterAnnouncer == INSTANCE Announcement
  WITH Contents <- Seq([node_name : Names, node_namespace : Namespaces,
                        readers : Nat, writers : Seq(Entities)]),
       Nothing <- <<>>,
       content <- [dp \in Participants |-> Uncovered(Content(dp))],
       inFlight <- {[sample EXCEPT !.nodes = Uncovered(@)] : sample \in InFlight},
       announced <- [dp \in Participants |-> Uncovered(announced[dp])]

WritersAreContent == WriterAnnouncer!Spec

\* Every reader of a node is in the sample of its participant, subscriptions
\* and the readers of clients and services alike.
ReadersAreAnnounced ==
  [][\A dp \in Participants : Convert(dp) =>
       \A i \in DOMAIN NodesOf(dp) :
         \A k \in DOMAIN NodesOf(dp)[i].endpoints :
           LET endp == NodesOf(dp)[i].endpoints[k]
           IN  HasReader(endp) =>
                 \E j \in DOMAIN Visible(pinfo')[i].readers :
                   Visible(pinfo')[i].readers[j] = endp.dds_reader]_graphVars

\* A subscription's reader is in the sample of its participant at the place of
\* its registration among the readers, whatever clients and services do to
\* reader_i between them.
SubscriptionsAreAnnounced ==
  [][\A dp \in Participants : Convert(dp) =>
       \A i \in DOMAIN NodesOf(dp) :
         \A k \in DOMAIN NodesOf(dp)[i].endpoints :
           LET node == NodesOf(dp)[i]
               endp == node.endpoints[k]
           IN  endp.endp_type = "subscription" =>
                 Visible(pinfo')[i].readers
                   [Cardinality({j \in WithReader(node) : j <= k})]
                     = endp.dds_reader]_graphVars
=============================================================================
