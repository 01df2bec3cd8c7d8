CONSTANTS
  a1 = a1  a2 = a2  n1 = n1  n2 = n2  e1 = e1  e2 = e2  p1 = p1  p2 = p2
  Apps = {a1}
  Nodes = {n1, n2}
  Endpoints = {e1}
  Participants = {p1}
  ParticipantOf <- MCParticipantOfShared
  PollEnabled = TRUE
  MayFail = TRUE
  MaxCalls = 3
  Free = Free
  NoParticipant = NoParticipant
  NoNode = NoNode
SPECIFICATION FairSpec
CHECK_DEADLOCK FALSE
PROPERTIES Converges
