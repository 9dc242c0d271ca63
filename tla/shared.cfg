CONSTANTS
  Bridges = {1, 2}
  TableCount = 2
  Table <- TwoTables
  Txns = {x1}
  MaxWal = 1
  Founders = {1}
  MaxTouch = 2
  Disturbances = 1
SPECIFICATION FairSpec
CHECK_DEADLOCK FALSE
INVARIANTS
  NothingMissed
  InOrderOnce
PROPERTIES
  SlotReleased
  QueueMoves
