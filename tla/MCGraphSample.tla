---------------------------- MODULE MCGraphSample ----------------------------
(***************************************************************************)
(* Finite instances of GraphSample, with one node at a time: it has a      *)
(* subscription and a client, or it is on one participant or another and   *)
(* has a subscription and a publisher.                                     *)
(***************************************************************************)
EXTENDS GraphSample, TLC

CONSTANTS
  sub, pub, cliR, cliW,   \* DDS endpoints
  p1, p2,                 \* DomainParticipants
  talker                  \* the name of a node

MCTopicOf ==
  sub :> "chatter" @@ pub :> "chatter" @@ cliW :> "request" @@ cliR :> "reply"

MCPrefixOf == "chatter" :> "rt/" @@ "request" :> "rq/" @@ "reply" :> "rr/"

MCWriters == Entities \cap {pub, cliW}

MCParticipantOf == [e \in Entities |-> p1]

\* The participants are interchangeable: no inspection asks which DDS endpoints
\* they have, and the graph's own differs from the other only in that it need
\* not be passed.
MCSymmetry == Permutations(Participants)
=============================================================================
