CONSTANTS
  Topics <- MCTopics
  NodeName = "talker"
  Types <- MCTypes
SPECIFICATION Spec
INVARIANTS WritesFit QuerySuffices BuffersFreed TopicsDetected
