--------------------------- MODULE MCGraphHandles ---------------------------
(***************************************************************************)
(* The finite instance of GraphHandles: two nodes, a subscription and two  *)
(* clients of one service that may share their reader.                     *)
(***************************************************************************)
EXTENDS GraphHandles, TLC

CONSTANTS
  sub, cliR, cliW, cliW2,  \* DDS endpoints
  p1                       \* their DomainParticipant

MCTopicOf ==
  sub :> "chatter" @@ cliW :> "request" @@ cliW2 :> "request" @@ cliR :> "reply"

MCPrefixOf == "chatter" :> "rt/" @@ "request" :> "rq/" @@ "reply" :> "rr/"

MCWriters == Entities \cap {cliW, cliW2}

MCParticipantOf == [e \in Entities |-> p1]

\* The writers of the two clients are interchangeable.
MCSymmetry == Permutations({cliW, cliW2})
=============================================================================
