SPECIFICATION Spec
CONSTANTS
  Slots = {1, 2}
  Generations = 2
  Size <- MCSize
  Faults = 1
  Replies = {"gated"}
  Clicks = 2
  Elsewhere = 1
  Curated = TRUE
INVARIANTS
  SectionsEarned
  CompletedShows
CHECK_DEADLOCK FALSE
PROPERTIES
  RoadmapSettles
