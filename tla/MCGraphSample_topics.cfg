CONSTANTS
  sub = sub  pub = pub  cliR = cliR  cliW = cliW
  p1 = p1  p2 = p2  talker = talker
  Names = {talker}
  Namespaces = {"/"}
  Root = "/"
  NullNamespace = NullNamespace
  EmptyNamespace = EmptyNamespace
  Participants = {p1, p2}
  GraphParticipant = p1
  NoParticipant = NoParticipant
  Entities = {sub, pub}
  Writers <- MCWriters
  TopicOf <- MCTopicOf
  PrefixOf <- MCPrefixOf
  ParticipantOf <- MCParticipantOf
  NoEntity = NoEntity
  NoGid = NoGid
  NoName = NoName
  Exhausted = {"reader_gid_seq"}
  PollEnabled = FALSE
  MayFail = TRUE
  MaxHandle = 1
  MaxSize = 3
  MaxNodes = 1
  MaxEndpoints = 2
SPECIFICATION SampleSpec
SYMMETRY MCSymmetry
INVARIANTS SampleTypeOK
PROPERTIES SampleIsContent
