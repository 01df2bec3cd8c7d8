------------------------------ MODULE History ------------------------------
(***************************************************************************)
(* The history of the graph's DataWriter.  One writer announces all the    *)
(* DomainParticipants of the graph, its type has no key, and it keeps the  *)
(* last Depth samples of them all for DataReaders that join late.  A round *)
(* of publish_update writes one sample for each participant that has a     *)
(* node, and an error ends it in the middle.  A sample is here the         *)
(* participant that it is about; its content is in module GraphSample.     *)
(* Readers are not modelled: what one that joins late is sent is what the  *)
(* writer keeps, and the library gives them a history of one sample.       *)
(***************************************************************************)
EXTENDS Naturals, Sequences, FiniteSets

CONSTANTS
  Participants,  \* DomainParticipants of the graph's nodes
  Depth,         \* history depth of the writer
  MaxAborts      \* bound: rounds that errors end one after another

ASSUME HistoryAssumption ==
  /\ IsFiniteSet(Participants) /\ Participants # {}
  /\ Depth \in Nat \ {0}
  /\ MaxAborts \in Nat

VARIABLES
  hosts,      \* the participants that have a node
  history,    \* the samples the writer keeps, oldest first
  to_visit,   \* the participants the current round has yet to announce
  aborts,     \* the rounds ended by an error since the last complete one
  standing    \* announced, and hosting a node ever since

vars == <<hosts, history, to_visit, aborts, standing>>

-----------------------------------------------------------------------------
\* Mutant of KeepLast: one sample too few is kept.
KeepLastButOne(samples, depth) ==
  IF Len(samples) < depth THEN samples ELSE Tail(samples)

\* DDS_KEEP_LAST_HISTORY_QOS, after one more sample.
KeepLast(samples, depth) ==
  IF Len(samples) <= depth THEN samples ELSE Tail(samples)

Init ==
  /\ hosts = {}
  /\ history = <<>>
  /\ to_visit = {}
  /\ aborts = 0
  /\ standing = {}

\* A participant gets its first node or loses its last one.
RegisterNode(p) ==
  /\ p \notin hosts
  /\ hosts' = hosts \cup {p}
  /\ UNCHANGED <<history, to_visit, aborts, standing>>

UnregisterNode(p) ==
  /\ p \in hosts
  /\ hosts' = hosts \ {p}
  /\ standing' = standing \ {p}
  /\ UNCHANGED <<history, to_visit, aborts>>

\* publish_update gathers the participants, in the order of their nodes, which
\* is any.
Gather ==
  /\ to_visit = {}
  /\ hosts # {}
  /\ to_visit' = hosts
  /\ UNCHANGED <<hosts, history, aborts, standing>>

\* A participant that has lost its nodes since Gather is announced without any.
Publish(p) ==
  /\ p \in to_visit
  /\ history' = KeepLast(Append(history, p), Depth)
  /\ to_visit' = to_visit \ {p}
  /\ aborts' = IF to_visit = {p} THEN 0 ELSE aborts
  /\ standing' = IF p \in hosts THEN standing \cup {p} ELSE standing
  /\ UNCHANGED hosts

\* An error ends the round.
PublishFails ==
  /\ to_visit # {}
  /\ aborts < MaxAborts
  /\ to_visit' = {}
  /\ aborts' = aborts + 1
  /\ UNCHANGED <<hosts, history, standing>>

Next ==
  \/ \E p \in Participants : RegisterNode(p) \/ UnregisterNode(p) \/ Publish(p)
  \/ Gather \/ PublishFails

Spec == Init /\ [][Next]_vars

-----------------------------------------------------------------------------
(* Properties. *)

\* The history depth that MaxAborts errors in a row and this many participants
\* ask for: the round of p, the rounds that ended before p was visited again,
\* and the round in progress may each write the samples of all the others.
DepthNeeded == (MaxAborts + 2) * (Cardinality(Participants) - 1) + 1

\* The writer keeps a sample of every participant it has announced and that has
\* had a node ever since, to send to a reader that joins late: the samples of the
\* others, written in complete and in broken rounds, do not push it out.
Retained ==
  Depth >= DepthNeeded =>
    \A p \in standing : \E i \in DOMAIN history : history[i] = p
=============================================================================
