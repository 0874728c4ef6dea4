\* A source and the root, two lines each; a chunk holds a line and a half.
CONSTANTS
  source = source
  root = root
  Motes = {source, root}
  Prints <- MCPrints
  ChunkSize = 3
  MaxLines = 2
SPECIFICATION FairSpec
INVARIANTS TypeOK PointsInOrder LostOnlyByCut StopsOnlyByCut
PROPERTIES PrintedIsRead
CHECK_DEADLOCK FALSE
