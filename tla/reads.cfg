SPECIFICATION StatsSpec
CONSTANTS
  Ids <- MCIds
  Keys = {0, 1}
  PageSizes = {1, 2}
  Tags = {1, 2}
  TopLimit = 1
  MaxCommits = 2
  Modes = {"cursor", "ascending", "descending"}
CHECK_DEADLOCK FALSE
INVARIANTS
  ExactWalks
  CursorWalkNeverRepeats
  CursorWalkMissesNothing
  QuietOffsetWalkIsExact
  FiguresDriftByCommits
PROPERTIES
  CursorWalkEnds
