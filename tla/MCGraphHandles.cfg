CONSTANTS
  sub = sub  cliR = cliR  cliW = cliW  cliW2 = cliW2  p1 = p1
  Names = {"talker"}
  Namespaces = {"/", "/ns"}
  Root = "/"
  NullNamespace = NullNamespace
  EmptyNamespace = EmptyNamespace
  Participants = {p1}
  GraphParticipant = p1
  NoParticipant = NoParticipant
  Entities = {sub, cliR, cliW, cliW2}
  Writers <- MCWriters
  TopicOf <- MCTopicOf
  PrefixOf <- MCPrefixOf
  ParticipantOf <- MCParticipantOf
  NoEntity = NoEntity
  PollEnabled = FALSE
  MayFail = TRUE
  MaxHandle = 2
  MaxSize = 3
  MaxNodes = 2
  MaxEndpoints = 2
SPECIFICATION HandlesSpec
INVARIANTS UniqueNodeHandles UniqueNodeNames NodeGettersAnswer EndpointGettersAnswer
           SameEndpointUnregistered RegisteredExist CountersMatch
PROPERTIES NoEarlyReuse
SYMMETRY MCSymmetry
