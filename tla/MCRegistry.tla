----------------------------- MODULE MCRegistry -----------------------------
(***************************************************************************)
(* The finite instance of Registry: a subscription and a service that the  *)
(* application may register or leave to inspections, and a client's writer *)
(* that shares the topic of the service's reader.                          *)
(***************************************************************************)
EXTENDS Registry, TLC

CONSTANTS sub, cliW, svcR, svcW, p1  \* DDS endpoints, their DomainParticipant

MCTopicOf ==
  sub :> "chatter" @@ cliW :> "request" @@ svcR :> "request" @@ svcW :> "reply"

MCPrefixOf == "chatter" :> "rt/" @@ "request" :> "rq/" @@ "reply" :> "rr/"

MCWriters == {cliW, svcW}

MCParticipantOf == [e \in Entities |-> p1]
=============================================================================
