----------------------------- MODULE MCHistory -----------------------------
(***************************************************************************)
(* The finite instance of History: the writer of a C graph, scaled down.   *)
(***************************************************************************)
EXTENDS History

CONSTANTS p1, p2   \* DomainParticipants
=============================================================================
