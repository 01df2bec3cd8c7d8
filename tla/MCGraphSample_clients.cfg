CONSTANTS
  sub = sub  pub = pub  cliR = cliR  cliW = cliW
  p1 = p1  p2 = p2  talker = talker
  Names = {talker}
  Namespaces = {"/"}
  Root = "/"
  NullNamespace = NullNamespace
  EmptyNamespace = EmptyNamespace
  Participants = {p1}
  GraphParticipant = p1
  NoParticipant = NoParticipant
  Entities = {sub, cliR, cliW}
  Writers <- MCWriters
  TopicOf <- MCTopicOf
  PrefixOf <- MCPrefixOf
  ParticipantOf <- MCParticipantOf
  NoEntity = NoEntity
  NoGid = NoGid
  NoName = NoName
  Exhausted = {"writer_gid_seq", "node_entities_info_seq"}
  PollEnabled = FALSE
  MayFail = TRUE
  MaxHandle = 1
  MaxSize = 3
  MaxNodes = 1
  MaxEndpoints = 2
SPECIFICATION SampleSpec
PROPERTIES WritersAreContent SubscriptionsAreAnnounced
