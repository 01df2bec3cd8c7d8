CONSTANTS
  sub = sub  cliW = cliW  svcR = svcR  svcW = svcW  p1 = p1
  Names = {"talker"}
  Namespaces = {"/"}
  Root = "/"
  NullNamespace = NullNamespace
  Participants = {p1}
  Entities = {sub, cliW, svcR, svcW}
  Writers <- MCWriters
  TopicOf <- MCTopicOf
  PrefixOf <- MCPrefixOf
  ParticipantOf <- MCParticipantOf
  NoEntity = NoEntity
  PollEnabled = TRUE
  MayFail = TRUE
  MaxHandle = 2
  MaxSize = 3
  MaxNodes = 1
  MaxEndpoints = 2
SPECIFICATION Spec
INVARIANTS TypeOK UniqueEndpointHandles
PROPERTIES InspectionIsComplete CountersFollow
