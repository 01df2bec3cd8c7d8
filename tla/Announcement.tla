---------------------------- MODULE Announcement ----------------------------
(***************************************************************************)
(* What RTIROS2_Graph promises to the ROS 2 applications on the network:   *)
(* the last sample it wrote for a DomainParticipant is what the registry   *)
(* said of that participant at one instant, and the samples of a           *)
(* participant follow each other in the order of those instants.           *)
(***************************************************************************)
CONSTANTS
  Participants,  \* DomainParticipants
  Contents,      \* what the registry may say of a participant
  Nothing        \* what it says of a participant without nodes

VARIABLES
  content,    \* the registry
  inFlight,   \* the sample being written, if any
  announced   \* the last sample written for each participant

vars == <<content, inFlight, announced>>

Init ==
  /\ content = [p \in Participants |-> Nothing]
  /\ inFlight = {}
  /\ announced = [p \in Participants |-> Nothing]

\* The application, or a poll, changes the registry.
Change ==
  /\ content' \in [Participants -> Contents]
  /\ UNCHANGED <<inFlight, announced>>

\* The whole content of one participant is copied at once.
Copy(p) ==
  /\ inFlight = {}
  /\ inFlight' = {[gid |-> p, nodes |-> content[p]]}
  /\ UNCHANGED <<content, announced>>

Announce ==
  /\ \E sample \in inFlight :
       announced' = [announced EXCEPT ![sample.gid] = sample.nodes]
  /\ inFlight' = {}
  /\ UNCHANGED content

\* The write fails: the sample is dropped.
Drop ==
  /\ inFlight # {}
  /\ inFlight' = {}
  /\ UNCHANGED <<content, announced>>

Next == Change \/ (\E p \in Participants : Copy(p)) \/ Announce \/ Drop

Spec == Init /\ [][Next]_vars
=============================================================================
