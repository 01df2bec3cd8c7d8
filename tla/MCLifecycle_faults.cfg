CONSTANTS
  g1 = g1  g2 = g2
  Graphs = {g1, g2}
  AppRefs = 0
  MayFail = TRUE
SPECIFICATION Spec
SYMMETRY MCSymmetry
INVARIANTS TypeOK ThreadHasAll TopicRefsMatch PassedEntitiesStay NothingLeft
           DeletesAccepted ExitComes
CHECK_DEADLOCK FALSE
