CONSTANTS
  p1 = p1  p2 = p2
  Participants = {p1, p2}
  Depth = 5
  MaxAborts = 2
SPECIFICATION Spec
INVARIANTS Retained
