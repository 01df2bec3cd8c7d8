--------------------------- MODULE MCUpdateThread ---------------------------
(***************************************************************************)
(* Finite instances of UpdateThread.                                       *)
(***************************************************************************)
EXTENDS UpdateThread, TLC

CONSTANTS a1, a2, n1, n2, e1, e2, p1, p2

\* One DDS endpoint on each participant.
MCParticipantOf == e1 :> p1 @@ e2 :> p2

\* A single participant that every node and endpoint shares.
MCParticipantOfShared == [e \in Endpoints |-> p1]

MCSymmetry == Permutations(Apps) \cup Permutations(Nodes)
=============================================================================
